---- MODULE Spec2Model ----
(***************************************************************************)
(* vadumpcaps: the streaming structured writer and the capability          *)
(* traversal of src/vadumpcaps.c, as a state machine.                      *)
(*                                                                         *)
(* The output sink (stdout) is the sequence `out` of chunks, one chunk per *)
(* writer call; the libva calls of a run are logged in `queries`.          *)
(***************************************************************************)
EXTENDS Integers, Sequences, FiniteSets, TLC

VARIABLES
    dump_mask,      \* static int dump_mask
    indent_depth,   \* static int indent_depth
    indent_size,    \* static int indent_size
    pretty_print,   \* static bool pretty_print
    out,            \* stdout, as a sequence of chunks
    calls,          \* history: the writer calls made so far
    pc,             \* position of the program
    dev,            \* the device (driver) the run talks to
    failures,       \* number of queries that returned a non-success status
    queries,        \* history: the libva calls issued so far
    errs,           \* number of diagnostics written to stderr by error_vas
    live,           \* history: configurations, contexts and buffers created and not destroyed
    heap,           \* history: calloc'ed lists not yet freed
    loc,            \* the locals of the active traversal frames
    argv            \* the options given on the command line

vars == <<dump_mask, indent_depth, indent_size, pretty_print, out, calls, pc,
          dev, failures, queries, errs, live, heap, loc, argv>>

-----------------------------------------------------------------------------
(* Bounds of the model. *)

\* longest sequence of writer calls explored by SpecWriter
MaxCalls == 4
\* largest indentation width (-i) explored by SpecWriter
MaxIndent == 1
\* largest number of failing queries in one run
MaxFailures == 1

\* most capability entries a driver reports for the deinterlacing filter
MaxDeintCaps == 3

\* most entries a driver reports for the 3D LUT filter
MaxLuts == 2

-----------------------------------------------------------------------------
(* Small helpers. *)

\* An unsigned 32-bit word is written as the integer of -2^31 .. 2^31 - 1
\* that has the same 32 bits (two's complement): 0x80000000 is MinWord.
MinWord == -2147483647 - 1

\* 1 << n as a 32-bit word, n in 0..31
Pow2(n) ==
    <<1, 2, 4, 8, 16, 32, 64, 128, 256, 512, 1024, 2048, 4096, 8192, 16384, 32768,
      65536, 131072, 262144, 524288, 1048576, 2097152, 4194304, 8388608, 16777216,
      33554432, 67108864, 134217728, 268435456, 536870912, 1073741824, MinWord>>[n + 1]

\* bit n of the word x
Bit(x, n) == IF n = 31 THEN x < 0 ELSE (x \div Pow2(n)) % 2 = 1

\* (a & b) != 0 on 32-bit words
BitTest(a, b) == \E n \in 0..31 : Bit(a, n) /\ Bit(b, n)

\* a | b on words below 2^16
RECURSIVE BitOr(_, _)
BitOr(a, b) ==
    IF a = 0 THEN b
    ELSE IF b = 0 THEN a
    ELSE (IF a % 2 = 1 \/ b % 2 = 1 THEN 1 ELSE 0) + 2 * BitOr(a \div 2, b \div 2)

\* x << 1 on a 32-bit word: bit 31 is lost, bit 30 becomes bit 31
Shl1(x) ==
    LET low == x % Pow2(30)
    IN  IF Bit(x, 30) THEN MinWord + 2 * low ELSE 2 * low

\* x >> 16 on an unsigned 32-bit word
Shr16(x) == IF x >= 0 THEN x \div 65536 ELSE (x \div 65536) + 65536

\* the decimal digits of the unsigned value of a 32-bit word, as printf writes
\* the int64_t it converts to
Dec32(x) ==
    IF x >= 0 THEN ToString(x)
    ELSE LET y  == x - MinWord
             lo == (y % 1000) + 648
             hi == (y \div 1000) + 2147483
             h  == IF lo >= 1000 THEN hi + 1 ELSE hi
             l  == IF lo >= 1000 THEN lo - 1000 ELSE lo
         IN  ToString(h) \o (IF l < 10 THEN "00" ELSE IF l < 100 THEN "0" ELSE "")
                         \o ToString(l)

\* a NULL tag
NULL == "<NULL>"

-----------------------------------------------------------------------------
(* The structured writer.  A writer value w is the writer's state:          *)
(* d = indent_depth, o = the output so far, pp = pretty_print,              *)
(* sz = indent_size.  The output is kept as one chunk per writer call, in   *)
(* the order written: ind = the number of spaces print_indent wrote,        *)
(* tag = what print_tag wrote before its optional space, sp = 1 iff that    *)
(* space was written, txt = the delimiter or value text, nl = 1 iff         *)
(* print_newline wrote a newline.                                           *)

Writer == [d |-> indent_depth, o |-> out, pp |-> pretty_print, sz |-> indent_size]

\* print_indent: the number of spaces it writes
print_indent(w) ==
    IF w.pp /\ w.d > 0 /\ w.sz > 0 THEN w.d * w.sz ELSE 0

\* print_newline: the number of newlines it writes
print_newline(w) ==
    IF w.pp THEN 1 ELSE 0

\* print_tag with a defect: in compact mode the tag is not written
print_tag_pretty_only(w, tag) ==
    IF tag # NULL /\ w.pp
    THEN [tag |-> "\"" \o tag \o "\":", sp |-> 1]
    ELSE [tag |-> "", sp |-> 0]

\* print_tag: the tag text it writes, and whether a space follows it
print_tag(w, tag) ==
    IF tag # NULL
    THEN [tag |-> "\"" \o tag \o "\":", sp |-> IF w.pp THEN 1 ELSE 0]
    ELSE [tag |-> "", sp |-> 0]

\* the body every writer call shares: print_indent, print_tag, one printf of
\* txt, print_newline
Emit(w, tag, txt) ==
    [w EXCEPT !.o = Append(@, [ind |-> print_indent(w),
                               tag |-> print_tag(w, tag).tag,
                               sp  |-> print_tag(w, tag).sp,
                               txt |-> txt,
                               nl  |-> print_newline(w)])]

start_array(w, tag) == [Emit(w, tag, "[") EXCEPT !.d = @ + 1]

\* end_array with a defect: the closing line is indented before the depth is
\* lowered
end_array_late_decrement(w) == [Emit(w, NULL, "],") EXCEPT !.d = @ - 1]

end_array(w) == Emit([w EXCEPT !.d = @ - 1], NULL, "],")

start_object(w, tag) == [Emit(w, tag, "{") EXCEPT !.d = @ + 1]

end_object(w) == Emit([w EXCEPT !.d = @ - 1], NULL, "},")

print_boolean(w, tag, value) == Emit(w, tag, IF value THEN "true," ELSE "false,")

print_integer(w, tag, value) == Emit(w, tag, ToString(value) \o ",")

\* print_integer called with a uint32_t: the conversion to int64_t keeps the
\* unsigned value
print_unsigned(w, tag, value) == Emit(w, tag, Dec32(value) \o ",")

\* %lg of the integral values the model uses prints them as integers
print_double(w, tag, value) == Emit(w, tag, ToString(value) \o ",")

\* value: the string vfprintf produces from the format and its arguments
print_string(w, tag, value) == Emit(w, tag, "\"" \o value \o "\",")

\* A writer call as a value: op the function, tag its tag argument, n its
\* numeric and s its string argument.  The traversal is written as the
\* sequence of writer calls it makes.
WCall(op, tag, n, s) == [op |-> op, tag |-> tag, n |-> n, s |-> s]

StartArray(tag)          == <<WCall("start_array", tag, 0, "")>>
EndArray                 == <<WCall("end_array", NULL, 0, "")>>
StartObject(tag)         == <<WCall("start_object", tag, 0, "")>>
EndObject                == <<WCall("end_object", NULL, 0, "")>>
PrintBoolean(tag, value) == <<WCall("print_boolean", tag, IF value THEN 1 ELSE 0, "")>>
PrintInteger(tag, value) == <<WCall("print_integer", tag, value, "")>>
PrintUnsigned(tag, value) == <<WCall("print_unsigned", tag, value, "")>>
PrintDouble(tag, value)  == <<WCall("print_double", tag, value, "")>>
PrintString(tag, value)  == <<WCall("print_string", tag, 0, value)>>

\* the writer call c made in writer state w
Apply(w, c) ==
    CASE c.op = "start_array"    -> start_array(w, c.tag)
      [] c.op = "end_array"      -> end_array(w)
      [] c.op = "start_object"   -> start_object(w, c.tag)
      [] c.op = "end_object"     -> end_object(w)
      [] c.op = "print_boolean"  -> print_boolean(w, c.tag, c.n = 1)
      [] c.op = "print_integer"  -> print_integer(w, c.tag, c.n)
      [] c.op = "print_unsigned" -> print_unsigned(w, c.tag, c.n)
      [] c.op = "print_double"   -> print_double(w, c.tag, c.n)
      [] c.op = "print_string"   -> print_string(w, c.tag, c.s)

\* the calls cs made in order from writer state w.  What a call does to
\* indent_depth does not depend on the state it is made in, so the depth
\* before call k is the depth of w plus the changes of the calls before k.
Run(w, cs) ==
    LET n  == Len(cs)
        w0 == [w EXCEPT !.o = <<>>]
        Before(dd, k) == w.d + Cardinality({j \in 1..(k - 1) : dd[j] = 1})
                             - Cardinality({j \in 1..(k - 1) : dd[j] = -1})
    IN  IF n = 0 THEN w
        ELSE CHOOSE r \in
                 {[w EXCEPT !.o = @ \o [k \in 1..n |->
                                           Apply([w0 EXCEPT !.d = Before(dd, k)], cs[k]).o[1]],
                            !.d = Before(dd, n + 1)]
                  : dd \in {[j \in 1..n |-> Apply(w0, cs[j]).d - w0.d]}} : TRUE

-----------------------------------------------------------------------------
(* Name tables (static data).  The numeric codes are those of the libva     *)
(* headers the program is built against (va.h, va_vpp.h of libva 2.13).    *)

entrypoints == <<
    [entrypoint |-> 1, name |-> "VLD", description |-> "Decode Slice"],
    [entrypoint |-> 2, name |-> "IZZ", description |-> "(Legacy) ZigZag Scan"],
    [entrypoint |-> 3, name |-> "IDCT", description |-> "(Legacy) Inverse DCT"],
    [entrypoint |-> 4, name |-> "MoComp", description |-> "(Legacy) Motion Compensation"],
    [entrypoint |-> 5, name |-> "Deblocking", description |-> "(Legacy) Deblocking"],
    [entrypoint |-> 6, name |-> "EncSlice", description |-> "Encode Slice"],
    [entrypoint |-> 7, name |-> "EncPicture", description |-> "Encode Picture"],
    [entrypoint |-> 8, name |-> "EncSliceLP", description |-> "Encode Slice (Low Power)"],
    [entrypoint |-> 10, name |-> "VideoProc", description |-> "Video Processing"],
    [entrypoint |-> 11, name |-> "FEI", description |-> "Flexible Encode"],
    [entrypoint |-> 12, name |-> "Stats", description |-> "Stats"],
    [entrypoint |-> 13, name |-> "ProtectedTEEComm", description |-> "Communicate with Trusted Execution Environment"],
    [entrypoint |-> 14, name |-> "ProtectedContent", description |-> "Decrypt Protected Content"]
>>

profiles == <<
    [profile |-> -1, name |-> "None", description |-> "Video Processing"],
    [profile |-> 0, name |-> "MPEG2Simple", description |-> "MPEG-2 Simple Profile"],
    [profile |-> 1, name |-> "MPEG2Main", description |-> "MPEG-2 Main Profile"],
    [profile |-> 2, name |-> "MPEG4Simple", description |-> "MPEG-4 part 2 Simple Profile"],
    [profile |-> 3, name |-> "MPEG4AdvancedSimple", description |-> "MPEG-4 part 2 Advanced Simple Profile"],
    [profile |-> 4, name |-> "MPEG4Main", description |-> "MPEG-4 part 2 Main Profile"],
    [profile |-> 5, name |-> "H264Baseline", description |-> "H.264 / MPEG-4 part 10 (AVC) Baseline Profile"],
    [profile |-> 6, name |-> "H264Main", description |-> "H.264 / MPEG-4 part 10 (AVC) Main Profile"],
    [profile |-> 7, name |-> "H264High", description |-> "H.264 / MPEG-4 part 10 (AVC) High Profile"],
    [profile |-> 8, name |-> "VC1Simple", description |-> "VC-1 / SMPTE 421M / WMV 9 / WMV3 Simple Profile"],
    [profile |-> 9, name |-> "VC1Main", description |-> "VC-1 / SMPTE 421M / WMV 9 / WMV3 Main Profile"],
    [profile |-> 10, name |-> "VC1Advanced", description |-> "VC-1 / SMPTE 421M / WMV 9 / WMV3 Advanced Profile"],
    [profile |-> 11, name |-> "H263Baseline", description |-> "H.263"],
    [profile |-> 12, name |-> "JPEGBaseline", description |-> "JPEG"],
    [profile |-> 13, name |-> "H264ConstrainedBaseline", description |-> "H.264 / MPEG-4 part 10 (AVC) Constrained Baseline Profile"],
    [profile |-> 14, name |-> "VP8Version0_3", description |-> "VP8 profile versions 0-3"],
    [profile |-> 15, name |-> "H264MultiviewHigh", description |-> "H.264 / MPEG-4 part 10 (AVC) Multiview High Profile"],
    [profile |-> 16, name |-> "H264StereoHigh", description |-> "H.264 / MPEG-4 part 10 (AVC) Stereo High Profile"],
    [profile |-> 17, name |-> "HEVCMain", description |-> "H.265 / MPEG-H part 2 (HEVC) Main Profile"],
    [profile |-> 18, name |-> "HEVCMain10", description |-> "H.265 / MPEG-H part 2 (HEVC) Main 10 Profile"],
    [profile |-> 19, name |-> "VP9Profile0", description |-> "VP9 profile 0"],
    [profile |-> 20, name |-> "VP9Profile1", description |-> "VP9 profile 1"],
    [profile |-> 21, name |-> "VP9Profile2", description |-> "VP9 profile 2"],
    [profile |-> 22, name |-> "VP9Profile3", description |-> "VP9 profile 3"],
    [profile |-> 23, name |-> "HEVCMain12", description |-> "H.265 / MPEG-H part 2 (HEVC) RExt Main 12 Profile"],
    [profile |-> 24, name |-> "HEVCMain422_10", description |-> "H.265 / MPEG-H part 2 (HEVC) RExt Main 4:2:2 10 Profile"],
    [profile |-> 25, name |-> "HEVCMain422_12", description |-> "H.265 / MPEG-H part 2 (HEVC) RExt Main 4:2:2 12 Profile"],
    [profile |-> 26, name |-> "HEVCMain444", description |-> "H.265 / MPEG-H part 2 (HEVC) RExt Main 4:4:4 Profile"],
    [profile |-> 27, name |-> "HEVCMain444_10", description |-> "H.265 / MPEG-H part 2 (HEVC) RExt Main 4:4:4 10 Profile"],
    [profile |-> 28, name |-> "HEVCMain444_12", description |-> "H.265 / MPEG-H part 2 (HEVC) RExt Main 4:4:4 12 Profile"],
    [profile |-> 29, name |-> "HEVCSccMain", description |-> "H.265 / MPEG-H part 2 (HEVC) SCC Screen-Extended Main Profile"],
    [profile |-> 30, name |-> "HEVCSccMain10", description |-> "H.265 / MPEG-H part 2 (HEVC) SCC Screen-Extended Main 10 Profile"],
    [profile |-> 31, name |-> "HEVCSccMain444", description |-> "H.265 / MPEG-H part 2 (HEVC) SCC Screen-Extended Main 4:4:4 Profile"],
    [profile |-> 32, name |-> "AV1Profile0", description |-> "AV1 Main Profile"],
    [profile |-> 33, name |-> "AV1Profile1", description |-> "AV1 High Profile"],
    [profile |-> 34, name |-> "HEVCSccMain444_10", description |-> "H.265 / MPEG-H part 2 (HEVC) SCC Screen-Extended Main 4:4:4 10 Profile"]
>>

rt_format_types == <<
    [value |-> 1,       name |-> "YUV420"],
    [value |-> 2,       name |-> "YUV422"],
    [value |-> 4,       name |-> "YUV444"],
    [value |-> 8,       name |-> "YUV411"],
    [value |-> 16,      name |-> "YUV400"],
    [value |-> 256,     name |-> "YUV420_10"],
    [value |-> 512,     name |-> "YUV422_10"],
    [value |-> 1024,    name |-> "YUV444_10"],
    [value |-> 4096,    name |-> "YUV420_12"],
    [value |-> 8192,    name |-> "YUV422_12"],
    [value |-> 16384,   name |-> "YUV444_12"],
    [value |-> 65536,   name |-> "RGB16"],
    [value |-> 131072,  name |-> "RGB32"],
    [value |-> 1048576, name |-> "RGBP"],
    [value |-> 2097152, name |-> "RGB32_10"]
>>

filters == <<
    [filter |-> 0, name |-> "None"],
    [filter |-> 1, name |-> "NoiseReduction"],
    [filter |-> 2, name |-> "Deinterlacing"],
    [filter |-> 3, name |-> "Sharpening"],
    [filter |-> 4, name |-> "ColorBalance"],
    [filter |-> 5, name |-> "SkinToneEnhancement"],
    [filter |-> 6, name |-> "TotalColorCorrection"],
    [filter |-> 7, name |-> "HVSNoiseReduction"],
    [filter |-> 8, name |-> "HighDynamicRangeToneMapping"],
    [filter |-> 9, name |-> "3DLUT"]
>>

deinterlacer_types == <<
    [type |-> 0, name |-> "None"],
    [type |-> 1, name |-> "Bob"],
    [type |-> 2, name |-> "Weave"],
    [type |-> 3, name |-> "MotionAdaptive"],
    [type |-> 4, name |-> "MotionCompensated"]
>>

colour_balance_types == <<
    [type |-> 0, name |-> "None"],
    [type |-> 1, name |-> "Hue"],
    [type |-> 2, name |-> "Saturation"],
    [type |-> 3, name |-> "Brightness"],
    [type |-> 4, name |-> "Contrast"],
    [type |-> 5, name |-> "AutoSaturation"],
    [type |-> 6, name |-> "AutoBrightness"],
    [type |-> 7, name |-> "AutoContrast"]
>>

colour_types == <<
    [type |-> 0,  name |-> "None"],
    [type |-> 1,  name |-> "BT601"],
    [type |-> 2,  name |-> "BT709"],
    [type |-> 3,  name |-> "BT470M"],
    [type |-> 4,  name |-> "BT470BG"],
    [type |-> 5,  name |-> "SMPTE170M"],
    [type |-> 6,  name |-> "SMPTE240M"],
    [type |-> 7,  name |-> "GenericFilm"],
    [type |-> 8,  name |-> "SRGB"],
    [type |-> 9,  name |-> "STRGB"],
    [type |-> 10, name |-> "XVYCC601"],
    [type |-> 11, name |-> "XVYCC709"],
    [type |-> 12, name |-> "BT2020"]
>>

\* the flags the AV(type, bit) lines of each bitmask attribute test, in the
\* order the lines are written
rate_control_modes == <<
    [value |-> 1,    name |-> "NONE"],
    [value |-> 2,    name |-> "CBR"],
    [value |-> 4,    name |-> "VBR"],
    [value |-> 8,    name |-> "VCM"],
    [value |-> 16,   name |-> "CQP"],
    [value |-> 32,   name |-> "VBR_CONSTRAINED"],
    [value |-> 64,   name |-> "ICQ"],
    [value |-> 128,  name |-> "MB"],
    [value |-> 256,  name |-> "CFS"],
    [value |-> 512,  name |-> "PARALLEL"],
    [value |-> 1024, name |-> "QVBR"],
    [value |-> 2048, name |-> "AVBR"],
    [value |-> 4096, name |-> "TCBRC"]
>>

decode_slice_modes == <<
    [value |-> 1, name |-> "NORMAL"],
    [value |-> 2, name |-> "BASE"]
>>

packed_headers == <<
    [value |-> 1,  name |-> "SEQUENCE"],
    [value |-> 2,  name |-> "PICTURE"],
    [value |-> 4,  name |-> "SLICE"],
    [value |-> 8,  name |-> "MISC"],
    [value |-> 16, name |-> "RAW_DATA"]
>>

interlace_modes == <<
    [value |-> 1, name |-> "FRAME"],
    [value |-> 2, name |-> "FIELD"],
    [value |-> 4, name |-> "MBAFF"],
    [value |-> 8, name |-> "PAFF"]
>>

slice_structure_modes == <<
    [value |-> 16, name |-> "ARBITRARY_ROWS"],
    [value |-> 1,  name |-> "POWER_OF_TWO_ROWS"],
    [value |-> 2,  name |-> "ARBITRARY_MACROBLOCKS"],
    [value |-> 4,  name |-> "EQUAL_ROWS"],
    [value |-> 8,  name |-> "MAX_SLICE_SIZE"],
    [value |-> 32, name |-> "EQUAL_MULTI_ROWS"]
>>

quantization == <<
    [value |-> 1, name |-> "TRELLIS_SUPPORTED"]
>>

intra_refresh == <<
    [value |-> 1,      name |-> "ROLLING_COLUMN"],
    [value |-> 2,      name |-> "ROLLING_ROW"],
    [value |-> 16,     name |-> "ADAPTIVE"],
    [value |-> 32,     name |-> "CYCLIC"],
    [value |-> 65536,  name |-> "P_FRAME"],
    [value |-> 131072, name |-> "B_FRAME"],
    [value |-> 262144, name |-> "MULTI_REF"]
>>

\* VAConfigAttribType codes
VAConfigAttribRTFormat          == 0
VAConfigAttribRateControl       == 5
VAConfigAttribDecSliceMode      == 6
VAConfigAttribEncPackedHeaders  == 10
VAConfigAttribEncInterlaced     == 11
VAConfigAttribEncMaxRefFrames   == 13
VAConfigAttribEncMaxSlices      == 14
VAConfigAttribEncSliceStructure == 15
VAConfigAttribEncMacroblockInfo == 16
VAConfigAttribEncQuantization   == 22
VAConfigAttribEncIntraRefresh   == 23

\* the value of a slot the driver does not support
VA_ATTRIB_NOT_SUPPORTED == MinWord

VAProfileNone         == -1
VAEntrypointVideoProc == 10

\* index of the first entry of table t whose field f equals code; Len(t) + 1
\* when no entry matches (the linear scans of the traversal)
Scan(t, f, code) ==
    LET m == {j \in 1..Len(t) : t[j][f] = code}
    IN  IF m = {} THEN Len(t) + 1 ELSE CHOOSE j \in m : \A k \in m : j <= k

-----------------------------------------------------------------------------
(* dump_config_attributes: decoding of one slot of attr_list.  A is the     *)
(* writer calls made so far together with the caller's rt_formats (the      *)
(* output parameter).                                                       *)

\* dump_flags with a defect: the table is walked from its last entry
dump_flags_backwards(value, t) ==
    LET Test(e) == BitTest(value, e.value)
        sel == SelectSeq(t, Test)
    IN  [k \in 1..Len(sel) |-> WCall("print_string", NULL, 0, sel[Len(sel) + 1 - k].name)]

\* the AV(type, bit) lines / the flag loops over table t: one print_string
\* per entry of t, in the order of t, whose value has a bit in common with
\* value
dump_flags(value, t) ==
    LET Test(e) == BitTest(value, e.value)
        sel == SelectSeq(t, Test)
    IN  [k \in 1..Len(sel) |-> WCall("print_string", NULL, 0, sel[k].name)]

\* the switch over attr_list[i].type
dump_config_attribute(A, type, value) ==
    CASE type = VAConfigAttribRTFormat ->
            [cs |-> A.cs \o StartArray("rt_formats") \o dump_flags(value, rt_format_types)
                         \o EndArray,
             rt_formats |-> value]
      [] type = VAConfigAttribRateControl ->
            [A EXCEPT !.cs = @ \o StartArray("rate_control_modes")
                               \o dump_flags(value, rate_control_modes) \o EndArray]
      [] type = VAConfigAttribDecSliceMode ->
            [A EXCEPT !.cs = @ \o StartArray("decode_slice_modes")
                               \o dump_flags(value, decode_slice_modes) \o EndArray]
      [] type = VAConfigAttribEncPackedHeaders ->
            [A EXCEPT !.cs = @ \o StartArray("packed_headers")
                               \o dump_flags(value, packed_headers) \o EndArray]
      [] type = VAConfigAttribEncInterlaced ->
            [A EXCEPT !.cs = @ \o StartArray("interlace_modes")
                               \o dump_flags(value, interlace_modes) \o EndArray]
      [] type = VAConfigAttribEncMaxRefFrames ->
            [A EXCEPT !.cs = @ \o StartObject("max_ref_frames")
                               \o PrintUnsigned("list0", value % 65536)
                               \o (IF Shr16(value) # 0
                                   THEN PrintUnsigned("list1", Shr16(value)) ELSE <<>>)
                               \o EndObject]
      [] type = VAConfigAttribEncMaxSlices ->
            [A EXCEPT !.cs = @ \o PrintUnsigned("max_slices", value)]
      [] type = VAConfigAttribEncSliceStructure ->
            [A EXCEPT !.cs = @ \o StartArray("slice_structure_modes")
                               \o dump_flags(value, slice_structure_modes) \o EndArray]
      [] type = VAConfigAttribEncMacroblockInfo ->
            [A EXCEPT !.cs = @ \o PrintUnsigned("macroblock_info", value)]
      [] type = VAConfigAttribEncQuantization ->
            [A EXCEPT !.cs = @ \o StartArray("quantization")
                               \o dump_flags(value, quantization) \o EndObject]
      [] type = VAConfigAttribEncIntraRefresh ->
            [A EXCEPT !.cs = @ \o StartArray("intra_refresh")
                               \o dump_flags(value, intra_refresh) \o EndObject]
      [] OTHER ->
            [A EXCEPT !.cs = @ \o StartObject("unknown") \o PrintInteger("type", type)
                               \o PrintUnsigned("value", value) \o EndObject]

\* the loop body with a defect: a slot holding the sentinel is decoded too
dump_config_attribute_slot_no_skip(A, type, value) ==
    dump_config_attribute(A, type, value)

\* one iteration of the loop over attr_list
dump_config_attribute_slot(A, type, value) ==
    IF value = VA_ATTRIB_NOT_SUPPORTED THEN A
    ELSE dump_config_attribute(A, type, value)

\* the loop over attr_list; attrs is the list of (type, value) slots in
\* increasing type order
RECURSIVE dump_config_attribute_list(_, _, _)
dump_config_attribute_list(A, attrs, i) ==
    IF i > Len(attrs) THEN A
    ELSE dump_config_attribute_list(
             dump_config_attribute_slot(A, attrs[i].type, attrs[i].value), attrs, i + 1)

-----------------------------------------------------------------------------
(* The devices the traversal is run against: what the driver answers to    *)
(* each query when the query succeeds.  Device 1 is a decoder with three   *)
(* profiles (one unknown to the tables, one with an unknown entry point),  *)
(* device 2 a video processor with two pixel-format classes and three      *)
(* filters, one of which reports no capability entries.  The devices of    *)
(* SurfaceDevices are decoders with one profile and one entry point, one   *)
(* device for every value of the RTFormat attribute built from the bits    *)
(* SurfaceBits.                                                            *)

Devices == {1, 2}

\* bit positions of the RTFormat values of the surface devices: the lowest
\* two, one in the middle and the highest two of the 32-bit word
SurfaceBits == <<0, 1, 17, 30, 31>>

SurfaceDevices == {100 + i : i \in 0..31}

\* the RTFormat value surface device d reports: bit SurfaceBits[k] is set
\* when bit k - 1 of d - 100 is
DevRtFormats(d) ==
    LET B(k) == IF Bit(d - 100, k - 1) THEN Pow2(SurfaceBits[k]) ELSE 0
    IN  B(1) + B(2) + B(3) + B(4) + B(5)

\* vaQueryVendorString
DevVendor(d) == IF d = 1 THEN "vendor" ELSE NULL

\* vaQueryConfigProfiles
DevProfiles(d) ==
    CASE d = 1 -> <<6, 99, 1>>
      [] d \in SurfaceDevices -> <<6>>
      [] OTHER -> <<VAProfileNone>>

\* vaQueryConfigEntrypoints
DevEntrypoints(d, profile) ==
    CASE d = 1 /\ profile = 6 -> <<1>>
      [] d = 1 /\ profile = 1 -> <<77>>
      [] d \in SurfaceDevices -> <<1>>
      [] d = 2 /\ profile = VAProfileNone -> <<VAEntrypointVideoProc>>
      [] OTHER -> <<>>

\* vaGetConfigAttributes: the slots of attr_list the model follows, in
\* increasing type order (every other slot is VA_ATTRIB_NOT_SUPPORTED)
DevAttribs(d, profile, entrypoint) ==
    CASE d = 1 /\ entrypoint = 1 ->
            <<[type |-> VAConfigAttribRTFormat, value |-> 1],
              [type |-> VAConfigAttribRateControl, value |-> VA_ATTRIB_NOT_SUPPORTED]>>
      [] d = 1 /\ entrypoint = 77 ->
            <<[type |-> VAConfigAttribRTFormat, value |-> VA_ATTRIB_NOT_SUPPORTED],
              [type |-> VAConfigAttribEncMaxSlices, value |-> 4]>>
      [] d = 2 ->
            <<[type |-> VAConfigAttribRTFormat, value |-> 131073]>>
      [] d \in SurfaceDevices ->
            <<[type |-> VAConfigAttribRTFormat, value |-> DevRtFormats(d)]>>
      [] OTHER -> <<>>

\* VASurfaceAttribType codes
VASurfaceAttribPixelFormat == 1
VASurfaceAttribMinWidth    == 2
VASurfaceAttribMaxWidth    == 3
VASurfaceAttribMinHeight   == 4
VASurfaceAttribMaxHeight   == 5
VASurfaceAttribMemoryType  == 6
VASurfaceAttribExternalBufferDescriptor == 7
VASurfaceAttribUsageHint   == 8

\* vaQuerySurfaceAttributes: i is value.value.i, s its first four bytes as text
DevSurfaceAttribs(d, rt_format) ==
    CASE d = 1 ->
            <<[type |-> VASurfaceAttribPixelFormat, i |-> 0, s |-> "NV12"],
              [type |-> VASurfaceAttribMaxWidth, i |-> 4096, s |-> ""],
              [type |-> VASurfaceAttribMemoryType, i |-> 1, s |-> ""]>>
      [] d = 2 /\ rt_format = 1 ->
            <<[type |-> VASurfaceAttribPixelFormat, i |-> 0, s |-> "NV12"]>>
      [] d \in SurfaceDevices ->
            <<[type |-> 42, i |-> 3, s |-> ""],
              [type |-> 43, i |-> 5, s |-> ""]>>
      [] OTHER ->
            <<[type |-> 42, i |-> 3, s |-> ""]>>

VAProcFilterNone               == 0
VAProcFilterNoiseReduction     == 1
VAProcFilterDeinterlacing      == 2
VAProcFilterColorBalance       == 4
VAProcFilterTotalColorCorrection == 6
VAProcFilterHVSNoiseReduction  == 7
VAProcFilter3DLUT              == 9
VAProcDeinterlacingNone        == 0

\* vaQueryVideoProcFilters
DevFilters(d) ==
    IF d = 2
    THEN <<VAProcFilterDeinterlacing, VAProcFilterNoiseReduction, VAProcFilterColorBalance>>
    ELSE <<>>

\* vaQueryVideoProcFilterCaps: the capability entries written for a filter
DevFilterCaps(d, filter) ==
    CASE filter = VAProcFilterDeinterlacing ->
            <<[type |-> 1, min |-> 0, max |-> 0, def |-> 0, step |-> 0],
              [type |-> 3, min |-> 0, max |-> 0, def |-> 0, step |-> 0]>>
      [] filter = VAProcFilterNoiseReduction ->
            <<[type |-> 0, min |-> 0, max |-> 64, def |-> 32, step |-> 1]>>
      [] OTHER -> <<>>

\* vaQueryVideoProcPipelineCaps
DevPipelineCaps(d) ==
    [pipeline_flags |-> 0, filter_flags |-> 0,
     num_forward_references |-> 0, num_backward_references |-> 1,
     input_color_standards |-> <<1, 50>>, output_color_standards |-> <<>>]

\* vaQueryImageFormats
DevImageFormats(d) ==
    IF d = 1
    THEN <<[fourcc |-> "NV12", byte_order |-> 1, bits_per_pixel |-> 12, depth |-> 0,
            red_mask |-> 0, green_mask |-> 0, blue_mask |-> 0, alpha_mask |-> 0],
           [fourcc |-> "BGRX", byte_order |-> 1, bits_per_pixel |-> 32, depth |-> 24,
            red_mask |-> 16711680, green_mask |-> 65280, blue_mask |-> 255,
            alpha_mask |-> 0]>>
    ELSE <<>>

\* vaQuerySubpictureFormats: the formats, each with its flags
DevSubpictureFormats(d) ==
    IF d = 2
    THEN <<[fourcc |-> "BGRA", byte_order |-> 2, bits_per_pixel |-> 32, depth |-> 0,
            red_mask |-> 0, green_mask |-> 0, blue_mask |-> 0, alpha_mask |-> 0,
            flags |-> 2]>>
    ELSE <<>>

-----------------------------------------------------------------------------
(* What the traversal functions write once their query has succeeded.      *)

memory_types == <<
    [value |-> 1,          name |-> "VA"],
    [value |-> 2,          name |-> "V4L2"],
    [value |-> 4,          name |-> "USER_PTR"],
    [value |-> 268435456,  name |-> "KERNEL_DRM"],
    [value |-> 536870912,  name |-> "DRM_PRIME"],
    [value |-> 1073741824, name |-> "DRM_PRIME_2"]
>>

usage_hints == <<
    [value |-> 1,  name |-> "DECODER"],
    [value |-> 2,  name |-> "ENCODER"],
    [value |-> 4,  name |-> "VPP_READ"],
    [value |-> 8,  name |-> "VPP_WRITE"],
    [value |-> 16, name |-> "DISPLAY"]
>>

\* the switch over attr_list[i].type of dump_surface_attributes, from slot i
RECURSIVE dump_surface_attribute_list(_, _)
dump_surface_attribute_list(attrs, i) ==
    IF i > Len(attrs) THEN <<>>
    ELSE LET a == attrs[i]
         IN  (CASE a.type = VASurfaceAttribPixelFormat -> <<>>
                [] a.type = VASurfaceAttribMinWidth  -> PrintInteger("min_width", a.i)
                [] a.type = VASurfaceAttribMaxWidth  -> PrintInteger("max_width", a.i)
                [] a.type = VASurfaceAttribMinHeight -> PrintInteger("min_height", a.i)
                [] a.type = VASurfaceAttribMaxHeight -> PrintInteger("max_height", a.i)
                [] a.type = VASurfaceAttribMemoryType ->
                       StartArray("memory_types") \o dump_flags(a.i, memory_types) \o EndArray
                [] a.type = VASurfaceAttribExternalBufferDescriptor -> <<>>
                [] a.type = VASurfaceAttribUsageHint ->
                       StartArray("usage_hints") \o dump_flags(a.i, usage_hints) \o EndArray
                [] OTHER ->
                       StartObject("unknown") \o PrintInteger("type", a.type)
                           \o PrintInteger("value", a.i) \o EndObject)
             \o dump_surface_attribute_list(attrs, i + 1)

\* the pixel_formats loop
dump_pixel_formats(attrs) ==
    LET Test(a) == a.type = VASurfaceAttribPixelFormat
        sel == SelectSeq(attrs, Test)
    IN  [k \in 1..Len(sel) |-> WCall("print_string", NULL, 0, sel[k].s)]

\* first entry of rt_format_types with a bit in common with rt_format
ScanRtFormat(rt_format) ==
    LET m == {j \in 1..Len(rt_format_types) : BitTest(rt_format, rt_format_types[j].value)}
    IN  IF m = {} THEN Len(rt_format_types) + 1 ELSE CHOOSE j \in m : \A k \in m : j <= k

\* the object dump_surface_attributes writes for one rt_format
dump_surface_object(rt_format, attrs) ==
    LET i  == ScanRtFormat(rt_format)
        has_formats == \E k \in 1..Len(attrs) : attrs[k].type = VASurfaceAttribPixelFormat
    IN  StartObject(NULL)
        \o (IF i <= Len(rt_format_types)
            THEN PrintString("rt_format", rt_format_types[i].name)
            ELSE PrintString("rt_format", "unknown"))
        \o dump_surface_attribute_list(attrs, 1)
        \o (IF has_formats
            THEN StartArray("pixel_formats") \o dump_pixel_formats(attrs) \o EndArray
            ELSE <<>>)
        \o EndObject

RECURSIVE dump_colour_standards(_, _)
dump_colour_standards(types, i) ==
    IF i > Len(types) THEN <<>>
    ELSE LET j == Scan(colour_types, "type", types[i])
         IN  StartObject(NULL) \o PrintInteger("type", types[i])
             \o (IF j <= Len(colour_types)
                 THEN PrintString("name", colour_types[j].name)
                 ELSE PrintString("name", "unknown"))
             \o EndObject
             \o dump_colour_standards(types, i + 1)

\* the four fields of a VAProcFilterValueRange
dump_range(cap) ==
    PrintDouble("min_value", cap.min) \o PrintDouble("max_value", cap.max)
    \o PrintDouble("default_value", cap.def) \o PrintDouble("step", cap.step)

\* the deinterlacing and colour balance loops of dump_filter_caps, from entry j
RECURSIVE dump_filter_cap_types(_, _, _, _)
dump_filter_cap_types(caps, t, ranges, j) ==
    IF j > Len(caps) THEN <<>>
    ELSE LET k == Scan(t, "type", caps[j].type)
         IN  StartObject(NULL) \o PrintInteger("type", caps[j].type)
             \o (IF k <= Len(t) THEN PrintString("name", t[k].name) ELSE <<>>)
             \o (IF ranges THEN dump_range(caps[j]) ELSE <<>>)
             \o EndObject
             \o dump_filter_cap_types(caps, t, ranges, j + 1)

\* the channel mapping table
tdlut_channel_types == <<
    [type |-> 1, name |-> "RGB_RGB"],
    [type |-> 2, name |-> "YUV_RGB"],
    [type |-> 4, name |-> "VUY_RGB"]
>>

\* the 3D LUT loop of dump_filter_caps, from entry j
RECURSIVE dump_lut_types(_, _)
dump_lut_types(lut, j) ==
    IF j > Len(lut) THEN <<>>
    ELSE LET Test(e) == BitTest(lut[j].channel_mapping, e.type)
             sel == SelectSeq(tdlut_channel_types, Test)
         IN  PrintInteger("lut_size", lut[j].lut_size)
             \o StartArray("lut_stride")
             \o [k \in 1..3 |-> WCall("print_integer", NULL, lut[j].lut_stride[k], "")]
             \o EndArray
             \o PrintInteger("bit_depth", lut[j].bit_depth)
             \o PrintInteger("num_channel", lut[j].num_channel)
             \o StartArray("channel_mapping")
             \o [k \in 1..Len(sel) |-> WCall("print_string", NULL, 0, sel[k].name)]
             \o EndArray
             \o dump_lut_types(lut, j + 1)

\* what dump_filter_caps writes for a filter whose capability query succeeded
dump_filter_caps_out(filter, caps) ==
    CASE filter = VAProcFilterDeinterlacing ->
            StartArray("types") \o dump_filter_cap_types(caps, deinterlacer_types, FALSE, 1)
                \o EndArray
      [] filter = VAProcFilterColorBalance ->
            StartArray("types") \o dump_filter_cap_types(caps, colour_balance_types, TRUE, 1)
                \o EndArray
      [] filter = VAProcFilter3DLUT ->
            StartArray("types") \o dump_lut_types(caps, 1) \o EndArray
      [] OTHER ->
            IF Len(caps) > 0 THEN dump_range(caps[1]) ELSE <<>>

proc_pipeline_flags == <<
    [value |-> 1, name |-> "SUBPICTURES"],
    [value |-> 2, name |-> "FAST"]
>>

proc_filter_flags == <<
    [value |-> 1,     name |-> "PROC_FILTER_MANDATORY"],
    [value |-> 0,     name |-> "FRAME_PICTURE"],
    [value |-> 1,     name |-> "TOP_FIELD"],
    [value |-> 2,     name |-> "BOTTOM_FIELD"],
    [value |-> 16,    name |-> "SRC_BT601"],
    [value |-> 32,    name |-> "SRC_BT709"],
    [value |-> 64,    name |-> "SRC_SMPTE_240"],
    [value |-> 0,     name |-> "FILTER_SCALING_DEFAULT"],
    [value |-> 256,   name |-> "FILTER_SCALING_FAST"],
    [value |-> 512,   name |-> "FILTER_SCALING_HQ"],
    [value |-> 768,   name |-> "FILTER_SCALING_NL_ANAMORPHIC"],
    [value |-> 4096,  name |-> "FILTER_INTERPOLATION_NEAREST_NEIGHBOR"],
    [value |-> 8192,  name |-> "FILTER_INTERPOLATION_BILINEAR"],
    [value |-> 12288, name |-> "FILTER_INTERPOLATION_ADVANCED"]
>>

\* what dump_pipeline_caps writes once its query has succeeded (the
\* rotation, blend and mirror flags and the pixel format lists of the
\* devices of the model are empty, the dimensions 0)
dump_pipeline_caps_out(pipeline) ==
    (StartObject("pipeline")
     \o StartArray("pipeline_flags")
     \o dump_flags(pipeline.pipeline_flags, proc_pipeline_flags) \o EndArray
     \o StartArray("filter_flags")
     \o dump_flags(pipeline.filter_flags, proc_filter_flags) \o EndArray
     \o PrintInteger("num_forward_references", pipeline.num_forward_references)
     \o PrintInteger("num_backward_references", pipeline.num_backward_references)
     \o StartArray("input_colour_standards")
     \o dump_colour_standards(pipeline.input_color_standards, 1) \o EndArray
     \o StartArray("output_colour_standards")
     \o dump_colour_standards(pipeline.output_color_standards, 1) \o EndArray)
    \o (StartArray("rotation_flags") \o EndArray
        \o StartArray("blend_flags") \o EndArray
        \o StartArray("mirror_flags") \o EndArray
        \o PrintInteger("num_additional_outputs", 0)
        \o StartArray("input_pixel_formats") \o EndArray
        \o StartArray("output_pixel_formats") \o EndArray)
    \o (PrintInteger("max_input_width", 0) \o PrintInteger("max_input_height", 0)
        \o PrintInteger("min_input_width", 0) \o PrintInteger("min_input_height", 0)
        \o PrintInteger("max_output_width", 0) \o PrintInteger("max_output_height", 0)
        \o PrintInteger("min_output_width", 0) \o PrintInteger("min_output_height", 0)
        \o EndObject)

subpicture_flags == <<
    [value |-> 1, name |-> "CHROMA_KEYING"],
    [value |-> 2, name |-> "GLOBAL_ALPHA"],
    [value |-> 4, name |-> "DESTINATION_IS_SCREEN_COORD"]
>>

\* the fields dump_image_formats and dump_subpicture_formats write alike
dump_format_fields(f) ==
    StartObject(NULL)
    \o PrintString("pixel_format", f.fourcc)
    \o PrintString("byte_order", IF f.byte_order = 1 THEN "LE"
                                 ELSE IF f.byte_order = 2 THEN "BE" ELSE "unknown")
    \o PrintInteger("bits_per_pixel", f.bits_per_pixel)
    \o (IF f.depth # 0
        THEN PrintInteger("depth", f.depth)
             \o PrintInteger("red_mask", f.red_mask)
             \o PrintInteger("green_mask", f.green_mask)
             \o PrintInteger("blue_mask", f.blue_mask)
             \o PrintInteger("alpha_mask", f.alpha_mask)
        ELSE <<>>)

RECURSIVE dump_image_format_list(_, _)
dump_image_format_list(list, i) ==
    IF i > Len(list) THEN <<>>
    ELSE dump_format_fields(list[i]) \o EndObject \o dump_image_format_list(list, i + 1)

RECURSIVE dump_subpicture_format_list(_, _)
dump_subpicture_format_list(list, i) ==
    IF i > Len(list) THEN <<>>
    ELSE dump_format_fields(list[i])
         \o StartArray("flags") \o dump_flags(list[i].flags, subpicture_flags) \o EndArray
         \o EndObject
         \o dump_subpicture_format_list(list, i + 1)

-----------------------------------------------------------------------------
(* The selection mask and the option loop of main.                         *)

DUMP_PROFILES           == 0
DUMP_ENTRYPOINTS        == 1
DUMP_ATTRIBUTES         == 2
DUMP_SURFACE_FORMATS    == 3
DUMP_FILTERS            == 4
DUMP_FILTER_CAPS        == 5
DUMP_PIPELINE_CAPS      == 6
DUMP_IMAGE_FORMATS      == 7
DUMP_SUBPICTURE_FORMATS == 8
DUMP_MAX                == 9

\* DUMP with a defect: any non-empty mask selects every section
DumpIn_any(mask, name) == mask # 0

\* DUMP(name), on a given mask
DumpIn(mask, name) == BitTest(mask, Pow2(name))

DUMP(name) == DumpIn(dump_mask, name)

\* the short options that select a section: DUMP_ARG(ch, name)
SectionOptions == <<"p", "e", "t", "s", "f", "c", "l", "m", "b">>

DumpArg(ch) == Scan([i \in 1..Len(SectionOptions) |-> [ch |-> SectionOptions[i]]], "ch", ch) - 1

\* one pass of the getopt loop over option c, on o = [mask, pp]
ParseOption(o, c) ==
    CASE c = "u" -> [o EXCEPT !.pp = FALSE]
      [] c = "a" -> [o EXCEPT !.mask = Pow2(DUMP_MAX) - 1]
      [] OTHER   -> [o EXCEPT !.mask = BitOr(@, Pow2(DumpArg(c)))]

\* the getopt loop with a defect: no default when no section was selected
RECURSIVE ParseOptions_no_default(_, _, _)
ParseOptions_no_default(o, args, i) ==
    IF i > Len(args) THEN o
    ELSE ParseOptions_no_default(ParseOption(o, args[i]), args, i + 1)

\* the getopt loop and the default that follows it
RECURSIVE ParseOptions(_, _, _)
ParseOptions(o, args, i) ==
    IF i > Len(args)
    THEN IF o.mask = 0 THEN [o EXCEPT !.mask = Pow2(DUMP_MAX) - 1] ELSE o
    ELSE ParseOptions(ParseOption(o, args[i]), args, i + 1)

-----------------------------------------------------------------------------
(* The traversal.  A value S is the program's state between two libva      *)
(* calls: cs the writer calls made since the last libva call, l the locals, live the resources, heap the lists,  *)
(* pc the call the program makes next.  Each operator below runs the code  *)
(* from one point up to the next libva call.                               *)

VA_INVALID_ID == -1

Cur == [cs |-> <<>>, l |-> loc, live |-> live, heap |-> heap, pc |-> pc]

Locals0 ==
    [profile_list |-> <<>>, i_p |-> 0, entrypoint_list |-> <<>>, i_e |-> 0,
     rt_formats |-> 0, rt_format |-> 0, config |-> VA_INVALID_ID, attr_count |-> 0,
     fconfig |-> VA_INVALID_ID, fcontext |-> VA_INVALID_ID, filter_list |-> <<>>,
     i_f |-> 0, filter_buffer |-> VA_INVALID_ID, caps |-> <<>>,
     p_profile_list |-> 0, p_entrypoint_list |-> 0, p_attr_list |-> 0]

\* calloc of a list: the allocation is known by the number id
Alloc(S, name, id) == [S EXCEPT !.heap = @ \cup {[name |-> name, id |-> id]}]
Free(S, name, id) == [S EXCEPT !.heap = @ \ {[name |-> name, id |-> id]}]
\* a libva object created at the call site pc, and its vaDestroy call
Create(S, kind, id) == [S EXCEPT !.live = @ \cup {[kind |-> kind, id |-> id, by |-> pc]}]
Destroy(S, kind, id) == [S EXCEPT !.live = {r \in @ : ~(r.kind = kind /\ r.id = id)}]

profile(S)    == S.l.profile_list[S.l.i_p + 1]
entrypoint(S) == S.l.entrypoint_list[S.l.i_e + 1]
filter(S)     == IF S.l.i_f = -1 THEN VAProcFilterNone ELSE S.l.filter_list[S.l.i_f + 1]

\* main: from the subpicture section to the end
main_subpicture_formats(S) ==
    IF DUMP(DUMP_SUBPICTURE_FORMATS)
    THEN [S EXCEPT !.cs = @ \o StartArray("subpicture_formats"), !.pc = "dump_subpicture_formats"]
    ELSE [S EXCEPT !.pc = "main_end"]

main_after_subpicture_formats(S) ==
    [S EXCEPT !.cs = @ \o EndArray, !.pc = "main_end"]

\* main with a defect: the image formats section is never written
main_image_formats_skipped(S) == main_subpicture_formats(S)

main_image_formats(S) ==
    IF DUMP(DUMP_IMAGE_FORMATS)
    THEN [S EXCEPT !.cs = @ \o StartArray("image_formats"), !.pc = "dump_image_formats"]
    ELSE main_subpicture_formats(S)

\* main with a defect: the subpicture section is left out after the image
\* formats section has run
main_after_image_formats_no_subpictures(S) ==
    [S EXCEPT !.cs = @ \o EndArray, !.pc = "main_end"]

main_after_image_formats(S) ==
    main_subpicture_formats([S EXCEPT !.cs = @ \o EndArray])

main_after_profiles(S) ==
    main_image_formats([S EXCEPT !.cs = @ \o EndArray])

\* dump_profiles: the loop over profile_list, up to the call of
\* dump_entrypoints or the return to main
RECURSIVE dump_profiles_loop(_)
dump_profiles_loop(at) ==
    CHOOSE R \in {
       (IF S.l.i_p < Len(S.l.profile_list)
        THEN LET j  == Scan(profiles, "profile", profile(S))
                 S1 == [S EXCEPT !.cs = @ \o StartObject(NULL)
                                     \o PrintInteger("profile", profile(S))
                                     \o (IF j <= Len(profiles)
                                         THEN PrintString("name", profiles[j].name)
                                              \o PrintString("description", profiles[j].description)
                                         ELSE <<>>)]
             IN  IF DUMP(DUMP_ENTRYPOINTS)
                 THEN [S1 EXCEPT !.cs = @ \o StartArray("entrypoints"), !.pc = "dump_entrypoints"]
                 ELSE dump_profiles_loop([S1 EXCEPT !.cs = @ \o EndObject, !.l.i_p = @ + 1])
        ELSE main_after_profiles(Free(S, "profile_list", S.l.p_profile_list)))
        : S \in {at}} : TRUE

\* dump_profiles with a defect: a failure below ends the profile loop
dump_profiles_abandoned(S) == main_after_profiles(S)

\* dump_profiles after dump_entrypoints has returned
dump_profiles_after_entrypoints(S) ==
    dump_profiles_loop([S EXCEPT !.cs = @ \o EndArray \o EndObject, !.l.i_p = @ + 1])

RECURSIVE dump_entrypoints_loop(_)

\* dump_entrypoints: the end of one pass of the loop
dump_entrypoints_next(S) ==
    dump_entrypoints_loop([S EXCEPT !.cs = @ \o EndObject, !.l.i_e = @ + 1])

\* dump_entrypoints: the filters section of one entry point
dump_entrypoints_filters(at) ==
    CHOOSE R \in {
       (IF DUMP(DUMP_FILTERS) /\ entrypoint(S) = VAEntrypointVideoProc
        THEN [S EXCEPT !.pc = "dump_filters"]
        ELSE dump_entrypoints_next(S))
        : S \in {at}} : TRUE

\* dump_entrypoints with a defect: the surface_formats array is left open
dump_entrypoints_after_surface_unclosed(S) == dump_entrypoints_filters(S)

\* dump_entrypoints after dump_surface_attributes has returned
dump_entrypoints_after_surface(S) ==
    dump_entrypoints_filters([S EXCEPT !.cs = @ \o EndArray])

\* the loop with a defect: one pass for all the bits of rt_formats at once
NextRtFormat_all_bits(rt_format, rt_formats) ==
    IF rt_format = 1 THEN rt_formats ELSE 0

\* the for loop of dump_surface_attributes (rt_format <<= 1 until the bit
\* has left the 32-bit word): the first bit of rt_formats at or above the
\* single-bit word rt_format, 0 when there is none
NextRtFormat(rt_format, rt_formats) ==
    LET m == {n \in 0..31 : Bit(rt_formats, n) /\ \E k \in 0..n : rt_format = Pow2(k)}
    IN  IF m = {} THEN 0 ELSE Pow2(CHOOSE n \in m : \A k \in m : n <= k)

dump_surface_attributes_loop(at) ==
    CHOOSE R \in {
       (LET b == NextRtFormat(S.l.rt_format, S.l.rt_formats)
        IN  IF b = 0 THEN dump_entrypoints_after_surface(S)
            ELSE [S EXCEPT !.l.rt_format = b, !.pc = "dump_surface_attributes"])
        : S \in {at}} : TRUE

\* dump_entrypoints with a defect: the surface formats section does not test
\* rt_formats
dump_entrypoints_surface_unguarded(S) ==
    IF DUMP(DUMP_SURFACE_FORMATS)
    THEN dump_surface_attributes_loop([S EXCEPT !.cs = @ \o StartArray("surface_formats"),
                                                !.l.rt_format = 1])
    ELSE dump_entrypoints_filters(S)

\* dump_entrypoints: the surface formats section of one entry point
dump_entrypoints_surface(at) ==
    CHOOSE R \in {
       (IF DUMP(DUMP_SURFACE_FORMATS) /\ S.l.rt_formats # 0
        THEN dump_surface_attributes_loop([S EXCEPT !.cs = @ \o StartArray("surface_formats"),
                                                    !.l.rt_format = 1])
        ELSE dump_entrypoints_filters(S))
        : S \in {at}} : TRUE

\* dump_entrypoints after dump_config_attributes has returned
dump_entrypoints_after_attributes(S) ==
    dump_entrypoints_surface([S EXCEPT !.cs = @ \o EndObject])

dump_entrypoints_loop(at) ==
    CHOOSE R \in {
       (IF S.l.i_e < Len(S.l.entrypoint_list)
        THEN LET j  == Scan(entrypoints, "entrypoint", entrypoint(S))
                 S1 == [S EXCEPT !.cs = @ \o StartObject(NULL)
                                     \o PrintInteger("entrypoint", entrypoint(S))
                                     \o (IF j <= Len(entrypoints)
                                         THEN PrintString("name", entrypoints[j].name)
                                              \o PrintString("description",
                                                             entrypoints[j].description)
                                         ELSE <<>>),
                                !.l.rt_formats = 0]
             IN  IF DUMP(DUMP_ATTRIBUTES)
                 THEN [S1 EXCEPT !.cs = @ \o StartObject("attributes"), !.pc = "dump_config_attributes"]
                 ELSE dump_entrypoints_surface(S1)
        ELSE dump_profiles_after_entrypoints(Free(S, "entrypoint_list", S.l.p_entrypoint_list)))
        : S \in {at}} : TRUE

RECURSIVE dump_filters_loop(_)

\* dump_filters: the end of one pass of the loop over the filters
dump_filters_next(S) ==
    dump_filters_loop([S EXCEPT !.cs = @ \o EndObject, !.l.i_f = @ + 1])

\* dump_filter_pipelines with a defect: a filter without a parameter buffer
\* is queried with no buffers, like the None filter
dump_filter_pipelines_tail_always_query(S) ==
    [S EXCEPT !.pc = "dump_pipeline_caps"]

\* dump_filter_pipelines after its switch: which call comes next
dump_filter_pipelines_tail(at) ==
    CHOOSE R \in {
       (IF S.l.filter_buffer = VA_INVALID_ID
        THEN IF filter(S) = VAProcFilterNone
             THEN [S EXCEPT !.pc = "dump_pipeline_caps"]
             ELSE dump_filters_next(S)
        ELSE [S EXCEPT !.pc = "dump_pipeline_caps"])
        : S \in {at}} : TRUE

\* dump_filter_pipelines: entry and the head of its switch
dump_filter_pipelines_enter(at) ==
    CHOOSE R \in {
       (LET S1 == [S EXCEPT !.l.filter_buffer = VA_INVALID_ID]
        IN  CASE filter(S) = VAProcFilterNone -> dump_filter_pipelines_tail(S1)
              [] filter(S) = VAProcFilterHVSNoiseReduction ->
                    [S1 EXCEPT !.pc = "dump_filter_pipelines_buffer"]
              [] OTHER -> [S1 EXCEPT !.pc = "dump_filter_pipelines"])
        : S \in {at}} : TRUE

\* dump_filters with a defect: the pipeline section ignores its flag
dump_filters_always_pipelines(S) == dump_filter_pipelines_enter(S)

\* dump_filters after dump_filter_caps has returned or was skipped
dump_filters_after_caps(S) ==
    IF DUMP(DUMP_PIPELINE_CAPS) THEN dump_filter_pipelines_enter(S)
    ELSE dump_filters_next(S)

\* dump_filter_caps: entry and the head of its switch
dump_filter_caps_enter(at) ==
    CHOOSE R \in {
       (IF filter(S) = VAProcFilterHVSNoiseReduction THEN dump_filters_after_caps(S)
        ELSE [S EXCEPT !.pc = "dump_filter_caps"])
        : S \in {at}} : TRUE

dump_filters_loop(at) ==
    CHOOSE R \in {
       (IF S.l.i_f < Len(S.l.filter_list)
        THEN LET j  == Scan(filters, "filter", filter(S))
                 S1 == [S EXCEPT !.cs = @ \o StartObject(NULL)
                                     \o PrintInteger("filter", filter(S))
                                     \o (IF j <= Len(filters)
                                         THEN PrintString("name", filters[j].name) ELSE <<>>)]
             IN  IF DUMP(DUMP_FILTER_CAPS) /\ filter(S) # VAProcFilterNone
                 THEN dump_filter_caps_enter(S1)
                 ELSE dump_filters_after_caps(S1)
        ELSE dump_entrypoints_next(
                 Destroy(Destroy([S EXCEPT !.cs = @ \o EndArray], "context", S.l.fcontext),
                         "config", S.l.fconfig)))
        : S \in {at}} : TRUE

\* whether dump_filter_pipelines builds a parameter buffer from the
\* capability entries caps of the filter
\* the choice with a defect: the algorithm of the last entry is taken
MaxDeintType_last_entry(caps, i, deint_type) ==
    IF Len(caps) = 0 THEN deint_type ELSE caps[Len(caps)].type

RECURSIVE MaxDeintType(_, _, _)
MaxDeintType(caps, i, deint_type) ==
    IF i > Len(caps) THEN deint_type
    ELSE MaxDeintType(caps, i + 1,
                      IF caps[i].type > deint_type THEN caps[i].type ELSE deint_type)

WantsBuffer(f, caps) ==
    IF f = VAProcFilterDeinterlacing
    THEN MaxDeintType(caps, 1, VAProcDeinterlacingNone) # VAProcDeinterlacingNone
    ELSE Len(caps) > 0

-----------------------------------------------------------------------------
(* The steps of the program: one per libva call site.  A call that can     *)
(* fail (CHECK_VAS) fails or succeeds; at most MaxFailures calls of a run  *)
(* fail.                                                                   *)

\* a libva call in the log: the function called, the call site, its numeric
\* arguments, whether it succeeded, and how much output had been written
\* when it was made
Q(call, a, ok) == [call |-> call, site |-> pc, a |-> a, ok |-> ok, at |-> Len(out)]

NewId == Len(queries) + 1

MayFail(ok) == ok \/ failures < MaxFailures

\* the state after a step: S the program state, qs the calls the step made,
\* ok whether its fallible call succeeded (error_vas is called when not)
Commit(S, qs, ok) ==
    \E T \in {S} :
    \E w \in {Run(Writer, T.cs)} :
    /\ indent_depth' = w.d
    /\ out' = w.o
    /\ loc' = T.l
    /\ live' = T.live
    /\ heap' = T.heap
    /\ pc' = T.pc
    /\ queries' = queries \o qs
    /\ failures' = IF ok THEN failures ELSE failures + 1
    /\ errs' = IF ok THEN errs ELSE errs + 1
    /\ UNCHANGED <<dump_mask, indent_size, pretty_print, calls, dev, argv>>

\* main, from start_object(NULL) to the profiles section
main ==
    /\ pc = "main"
    /\ LET S == [Cur EXCEPT !.cs =
                     StartObject(NULL)
                     \o StartObject("build_version")
                     \o PrintInteger("major", 1) \o PrintInteger("minor", 13)
                     \o PrintInteger("micro", 0)
                     \o EndObject
                     \o StartObject("driver_version")
                     \o PrintInteger("major", 1) \o PrintInteger("minor", 13)
                     \o EndObject
                     \o (IF DevVendor(dev) # NULL
                         THEN PrintString("driver_vendor", DevVendor(dev))
                         ELSE PrintString("driver_vendor", "unknown"))]
       IN  Commit(IF DUMP(DUMP_PROFILES)
                  THEN [S EXCEPT !.cs = @ \o StartArray("profiles"), !.pc = "dump_profiles"]
                  ELSE main_image_formats(S),
                  <<Q("vaQueryVendorString", <<>>, TRUE)>>, TRUE)

dump_profiles ==
    /\ pc = "dump_profiles"
    /\ \E ok \in BOOLEAN :
        /\ MayFail(ok)
        /\ LET S0 == Alloc([Cur EXCEPT !.l.p_profile_list = NewId], "profile_list", NewId)
           IN  Commit(IF ok
                      THEN dump_profiles_loop([S0 EXCEPT !.l.profile_list = DevProfiles(dev),
                                                         !.l.i_p = 0])
                      ELSE main_after_profiles(S0),
                      <<Q("vaMaxNumProfiles", <<>>, TRUE),
                        Q("vaQueryConfigProfiles", <<>>, ok)>>, ok)

dump_entrypoints ==
    /\ pc = "dump_entrypoints"
    /\ \E ok \in BOOLEAN :
        /\ MayFail(ok)
        /\ LET S0 == Alloc([Cur EXCEPT !.l.p_entrypoint_list = NewId], "entrypoint_list", NewId)
           IN  Commit(IF ok
                      THEN dump_entrypoints_loop(
                               [S0 EXCEPT !.l.entrypoint_list = DevEntrypoints(dev, profile(Cur)),
                                          !.l.i_e = 0])
                      ELSE dump_profiles_after_entrypoints(S0),
                      <<Q("vaMaxNumEntrypoints", <<>>, TRUE),
                        Q("vaQueryConfigEntrypoints", <<profile(Cur)>>, ok)>>, ok)

dump_config_attributes ==
    /\ pc = "dump_config_attributes"
    /\ \E ok \in BOOLEAN :
        /\ MayFail(ok)
        /\ LET A == dump_config_attribute_list(
                        [cs |-> <<>>, rt_formats |-> loc.rt_formats],
                        DevAttribs(dev, profile(Cur), entrypoint(Cur)), 1)
           IN  Commit(dump_entrypoints_after_attributes(
                          IF ok THEN [Cur EXCEPT !.cs = A.cs, !.l.rt_formats = A.rt_formats]
                          ELSE Cur),
                      <<Q("vaGetConfigAttributes", <<profile(Cur), entrypoint(Cur)>>, ok)>>, ok)

\* dump_surface_attributes: vaCreateConfig for the bit rt_format
dump_surface_attributes ==
    /\ pc = "dump_surface_attributes"
    /\ \E ok \in BOOLEAN :
        /\ MayFail(ok)
        /\ Commit(IF ok
                  THEN Create([Cur EXCEPT !.l.config = NewId,
                                          !.pc = "dump_surface_attributes_count"],
                              "config", NewId)
                  ELSE dump_entrypoints_after_surface(Cur),
                  <<Q("vaCreateConfig", <<profile(Cur), entrypoint(Cur), loc.rt_format>>, ok)>>,
                  ok)

\* dump_surface_attributes: the query for the number of attributes
dump_surface_attributes_count ==
    /\ pc = "dump_surface_attributes_count"
    /\ \E ok \in BOOLEAN :
        /\ MayFail(ok)
        /\ Commit(IF ok
                  THEN [Cur EXCEPT !.l.attr_count = Len(DevSurfaceAttribs(dev, loc.rt_format)),
                                   !.pc = "dump_surface_attributes_list"]
                  ELSE dump_entrypoints_after_surface(Cur),
                  <<Q("vaQuerySurfaceAttributes", <<loc.config, 0>>, ok)>>, ok)

\* dump_surface_attributes: the query for the attributes and the rest of the
\* pass, up to the next bit of rt_formats
dump_surface_attributes_list ==
    /\ pc = "dump_surface_attributes_list"
    /\ \E ok \in BOOLEAN :
        /\ MayFail(ok)
        /\ LET S0 == Alloc([Cur EXCEPT !.l.p_attr_list = NewId], "attr_list", NewId)
               cs == dump_surface_object(loc.rt_format,
                                         DevSurfaceAttribs(dev, loc.rt_format))
           IN  Commit(IF ok
                      THEN dump_surface_attributes_loop(
                               Free([S0 EXCEPT !.cs = cs,
                                               !.l.rt_format = Shl1(@)],
                                    "attr_list", NewId))
                      ELSE dump_entrypoints_after_surface(S0),
                      <<Q("vaQuerySurfaceAttributes", <<loc.config, loc.attr_count>>, ok)>>, ok)

\* dump_filters: vaCreateConfig
dump_filters ==
    /\ pc = "dump_filters"
    /\ \E ok \in BOOLEAN :
        /\ MayFail(ok)
        /\ Commit(IF ok
                  THEN Create([Cur EXCEPT !.l.fconfig = NewId, !.pc = "dump_filters_context"],
                              "config", NewId)
                  ELSE dump_entrypoints_next(Cur),
                  <<Q("vaCreateConfig",
                      <<VAProfileNone, VAEntrypointVideoProc, loc.rt_formats>>, ok)>>, ok)

\* dump_filters: vaCreateContext
dump_filters_context ==
    /\ pc = "dump_filters_context"
    /\ \E ok \in BOOLEAN :
        /\ MayFail(ok)
        /\ Commit(IF ok
                  THEN Create([Cur EXCEPT !.l.fcontext = NewId, !.pc = "dump_filters_query"],
                              "context", NewId)
                  ELSE dump_entrypoints_next(Cur),
                  <<Q("vaCreateContext", <<loc.fconfig>>, ok)>>, ok)

\* dump_filters with a defect: the loop starts at the first enumerated
\* filter, without the None filter
dump_filters_query_no_none ==
    /\ pc = "dump_filters_query"
    /\ \E ok \in BOOLEAN :
        /\ MayFail(ok)
        /\ Commit(IF ok
                  THEN dump_filters_loop([Cur EXCEPT !.cs = @ \o StartArray("filters"),
                                                     !.l.filter_list = DevFilters(dev),
                                                     !.l.i_f = 0])
                  ELSE dump_entrypoints_next(Cur),
                  <<Q("vaQueryVideoProcFilters", <<loc.fcontext>>, ok)>>, ok)

\* dump_filters: vaQueryVideoProcFilters and the start of the loop
dump_filters_query ==
    /\ pc = "dump_filters_query"
    /\ \E ok \in BOOLEAN :
        /\ MayFail(ok)
        /\ Commit(IF ok
                  THEN dump_filters_loop([Cur EXCEPT !.cs = @ \o StartArray("filters"),
                                                     !.l.filter_list = DevFilters(dev),
                                                     !.l.i_f = -1])
                  ELSE dump_entrypoints_next(Cur),
                  <<Q("vaQueryVideoProcFilters", <<loc.fcontext>>, ok)>>, ok)

\* dump_filter_caps with a defect: a failed query is issued again
dump_filter_caps_retry ==
    /\ pc = "dump_filter_caps"
    /\ \E ok \in BOOLEAN :
        /\ MayFail(ok)
        /\ Commit(IF ok
                  THEN dump_filters_after_caps(
                           [Cur EXCEPT !.cs = dump_filter_caps_out(filter(Cur),
                                                      DevFilterCaps(dev, filter(Cur)))])
                  ELSE Cur,
                  <<Q("vaQueryVideoProcFilterCaps", <<loc.fcontext, filter(Cur)>>, ok)>>,
                  ok)

\* dump_filter_caps: vaQueryVideoProcFilterCaps and what it prints
dump_filter_caps ==
    /\ pc = "dump_filter_caps"
    /\ \E ok \in BOOLEAN :
        /\ MayFail(ok)
        /\ Commit(dump_filters_after_caps(
                      IF ok
                      THEN [Cur EXCEPT !.cs = dump_filter_caps_out(filter(Cur),
                                                      DevFilterCaps(dev, filter(Cur)))]
                      ELSE Cur),
                  <<Q("vaQueryVideoProcFilterCaps", <<loc.fcontext, filter(Cur)>>, ok)>>,
                  ok)

\* dump_filter_pipelines: vaQueryVideoProcFilterCaps
dump_filter_pipelines ==
    /\ pc = "dump_filter_pipelines"
    /\ \E ok \in BOOLEAN :
        /\ MayFail(ok)
        /\ LET caps == DevFilterCaps(dev, filter(Cur))
           IN  Commit(IF ~ok THEN dump_filters_next(Cur)
                      ELSE IF WantsBuffer(filter(Cur), caps)
                      THEN [Cur EXCEPT !.l.caps = caps, !.pc = "dump_filter_pipelines_buffer"]
                      ELSE dump_filter_pipelines_tail([Cur EXCEPT !.l.caps = caps]),
                      <<Q("vaQueryVideoProcFilterCaps", <<loc.fcontext, filter(Cur)>>, ok)>>, ok)

\* dump_filter_pipelines: vaCreateBuffer
dump_filter_pipelines_buffer ==
    /\ pc = "dump_filter_pipelines_buffer"
    /\ \E ok \in BOOLEAN :
        /\ MayFail(ok)
        /\ Commit(IF ok
                  THEN dump_filter_pipelines_tail(
                           Create([Cur EXCEPT !.l.filter_buffer = NewId], "buffer", NewId))
                  ELSE dump_filters_next(Cur),
                  <<Q("vaCreateBuffer", <<loc.fcontext, filter(Cur)>>, ok)>>, ok)

\* vaDestroyBuffer in the log: dump_filter_pipelines makes the call after
\* dump_pipeline_caps has returned, when written chunks have been written
DestroyBuffer(id, written) ==
    [call |-> "vaDestroyBuffer", site |-> "dump_filter_pipelines_destroy", a |-> <<id>>,
     ok |-> TRUE, at |-> Len(out) + written]

\* the end of dump_filter_pipelines with a defect: the parameter buffer is
\* destroyed only after a successful pipeline query
dump_pipeline_caps_leak_on_failure ==
    /\ pc = "dump_pipeline_caps"
    /\ \E ok \in BOOLEAN :
        /\ MayFail(ok)
        /\ LET nb == IF loc.filter_buffer = VA_INVALID_ID THEN 0 ELSE 1
               S1 == IF ok THEN [Cur EXCEPT !.cs = dump_pipeline_caps_out(DevPipelineCaps(dev))]
                     ELSE Cur
               S2 == IF nb = 1 /\ ok THEN Destroy(S1, "buffer", loc.filter_buffer) ELSE S1
           IN  Commit(dump_filters_next(S2),
                      <<Q("vaQueryVideoProcPipelineCaps", <<loc.fcontext, filter(Cur), nb>>, ok)>>
                      \o (IF nb = 1 /\ ok
                          THEN <<DestroyBuffer(loc.filter_buffer, Len(S1.cs))>> ELSE <<>>),
                      ok)

\* dump_pipeline_caps and the end of dump_filter_pipelines
dump_pipeline_caps ==
    /\ pc = "dump_pipeline_caps"
    /\ \E ok \in BOOLEAN :
        /\ MayFail(ok)
        /\ LET nb == IF loc.filter_buffer = VA_INVALID_ID THEN 0 ELSE 1
               S1 == IF ok THEN [Cur EXCEPT !.cs = dump_pipeline_caps_out(DevPipelineCaps(dev))]
                     ELSE Cur
               S2 == IF nb = 1 THEN Destroy(S1, "buffer", loc.filter_buffer) ELSE S1
           IN  Commit(dump_filters_next(S2),
                      <<Q("vaQueryVideoProcPipelineCaps", <<loc.fcontext, filter(Cur), nb>>, ok)>>
                      \o (IF nb = 1 THEN <<DestroyBuffer(loc.filter_buffer, Len(S1.cs))>>
                          ELSE <<>>),
                      ok)

\* dump_image_formats with a defect: a failed query is reported but the
\* function does not return
dump_image_formats_no_return ==
    /\ pc = "dump_image_formats"
    /\ \E ok \in BOOLEAN :
        /\ MayFail(ok)
        /\ LET S0 == Alloc(Cur, "format_list", NewId)
           IN  Commit(main_after_image_formats(
                          Free([S0 EXCEPT !.cs = dump_image_format_list(
                                                     DevImageFormats(dev), 1)],
                               "format_list", NewId)),
                      <<Q("vaMaxNumImageFormats", <<>>, TRUE),
                        Q("vaQueryImageFormats", <<>>, ok)>>, ok)

\* dump_image_formats with a defect: the list is fetched without asking
\* for its greatest length first
dump_image_formats_fixed_capacity ==
    /\ pc = "dump_image_formats"
    /\ \E ok \in BOOLEAN :
        /\ MayFail(ok)
        /\ LET S0 == Alloc(Cur, "format_list", NewId)
           IN  Commit(main_after_image_formats(
                          IF ok
                          THEN Free([S0 EXCEPT !.cs = dump_image_format_list(
                                                          DevImageFormats(dev), 1)],
                                    "format_list", NewId)
                          ELSE S0),
                      <<Q("vaQueryImageFormats", <<>>, ok)>>, ok)

dump_image_formats ==
    /\ pc = "dump_image_formats"
    /\ \E ok \in BOOLEAN :
        /\ MayFail(ok)
        /\ LET S0 == Alloc(Cur, "format_list", NewId)
           IN  Commit(main_after_image_formats(
                          IF ok
                          THEN Free([S0 EXCEPT !.cs = dump_image_format_list(
                                                          DevImageFormats(dev), 1)],
                                    "format_list", NewId)
                          ELSE S0),
                      <<Q("vaMaxNumImageFormats", <<>>, TRUE),
                        Q("vaQueryImageFormats", <<>>, ok)>>, ok)

dump_subpicture_formats ==
    /\ pc = "dump_subpicture_formats"
    /\ \E ok \in BOOLEAN :
        /\ MayFail(ok)
        /\ LET S0 == Alloc(Alloc(Cur, "format_list", NewId), "flags_list", NewId)
           IN  Commit(main_after_subpicture_formats(
                          IF ok
                          THEN Free(Free([S0 EXCEPT !.cs = dump_subpicture_format_list(
                                                               DevSubpictureFormats(dev), 1)],
                                         "format_list", NewId), "flags_list", NewId)
                          ELSE S0),
                      <<Q("vaMaxNumSubpictureFormats", <<>>, TRUE),
                        Q("vaQuerySubpictureFormats", <<>>, ok)>>, ok)

\* main with a defect: a run in which a query has failed stops before the
\* closing brace
main_end_unless_failed ==
    /\ pc = "main_end"
    /\ errs = 0
    /\ Commit([Cur EXCEPT !.cs = @ \o EndObject, !.pc = "done"],
              <<Q("vaTerminate", <<>>, TRUE)>>, TRUE)

\* main: the closing brace of the root object and vaTerminate
main_end ==
    /\ pc = "main_end"
    /\ Commit([Cur EXCEPT !.cs = @ \o EndObject, !.pc = "done"],
              <<Q("vaTerminate", <<>>, TRUE)>>, TRUE)

\* the command lines: the section options in every combination, and some
\* with -a and -u
RECURSIVE SubSeqOf(_, _, _)
SubSeqOf(s, keep, i) ==
    IF i > Len(s) THEN <<>>
    ELSE (IF i \in keep THEN <<s[i]>> ELSE <<>>) \o SubSeqOf(s, keep, i + 1)

ArgLists ==
    {SubSeqOf(SectionOptions, keep, 1) : keep \in SUBSET (1..Len(SectionOptions))}
    \cup {<<"a">>, <<"p", "a">>, <<"a", "m">>, <<"u">>, <<"u", "p", "e">>, <<"m", "p">>}

Init ==
    /\ argv \in ArgLists
    /\ dev \in Devices
    /\ LET o == ParseOptions([mask |-> 0, pp |-> TRUE], argv, 1)
       IN  dump_mask = o.mask /\ pretty_print = o.pp
    /\ indent_size = 4
    /\ indent_depth = 0
    /\ out = <<>>
    /\ calls = <<>>
    /\ pc = "main"
    /\ failures = 0
    /\ queries = <<>>
    /\ errs = 0
    /\ live = {}
    /\ heap = {}
    /\ loc = Locals0

Next ==
    \/ main
    \/ dump_profiles
    \/ dump_entrypoints
    \/ dump_config_attributes
    \/ dump_surface_attributes
    \/ dump_surface_attributes_count
    \/ dump_surface_attributes_list
    \/ dump_filters
    \/ dump_filters_context
    \/ dump_filters_query
    \/ dump_filter_caps
    \/ dump_filter_pipelines
    \/ dump_filter_pipelines_buffer
    \/ dump_pipeline_caps
    \/ dump_image_formats
    \/ dump_subpicture_formats
    \/ main_end

Spec == Init /\ [][Next]_vars

\* the program is one thread and every libva call returns: a step that can
\* be taken is taken
SpecLive == Init /\ [][Next]_vars /\ WF_vars(Next)

-----------------------------------------------------------------------------
(* The writer driven by an arbitrary caller: every sequence of writer calls *)
(* of at most MaxCalls calls, under every -i width up to MaxIndent and both *)
(* settings of -u.  The writer validates nothing, so stray end calls are    *)
(* possible too.  Each call is logged with the depth before and after it.   *)

Tags == {NULL, "t"}

\* no device is talked to
NoDevice ==
    /\ dump_mask = 0 /\ dev = 0 /\ failures = 0 /\ queries = <<>> /\ errs = 0
    /\ live = {} /\ heap = {} /\ argv = <<>>

Idle == NoDevice /\ loc = <<>>

InitWriter ==
    /\ indent_depth = 0
    /\ indent_size \in 0..MaxIndent
    /\ pretty_print \in BOOLEAN
    /\ out = <<>>
    /\ calls = <<>>
    /\ pc = "writer"
    /\ Idle

Call(op, tag, n, s) ==
    LET c == WCall(op, tag, n, s)
        w == Apply(Writer, c)
    IN  /\ pc = "writer"
        /\ Len(calls) < MaxCalls
        /\ indent_depth' = w.d
        /\ out' = w.o
        /\ calls' = Append(calls, [op |-> op, tag |-> tag, n |-> n, s |-> s,
                                   d0 |-> indent_depth, d1 |-> w.d])
        /\ UNCHANGED <<dump_mask, indent_size, pretty_print, pc, dev, failures,
                       queries, errs, live, heap, loc, argv>>

WStartArray   == \E tag \in Tags : Call("start_array", tag, 0, "")
WEndArray     == Call("end_array", NULL, 0, "")
WStartObject  == \E tag \in Tags : Call("start_object", tag, 0, "")
WEndObject    == Call("end_object", NULL, 0, "")
WPrintBoolean == Call("print_boolean", NULL, 1, "")
WPrintInteger == Call("print_integer", "t", 7, "")
WPrintDouble  == Call("print_double", NULL, 2, "")
WPrintString  == Call("print_string", "t", 0, "s")

NextWriter ==
    \/ WStartArray
    \/ WEndArray
    \/ WStartObject
    \/ WEndObject
    \/ WPrintBoolean
    \/ WPrintInteger
    \/ WPrintDouble
    \/ WPrintString

SpecWriter == InitWriter /\ [][NextWriter]_vars

-----------------------------------------------------------------------------
(* The attribute decoder on its own: one slot of attr_list with a bitmask   *)
(* type and any value built from the bits ProbeBits, decoded by the loop    *)
(* body of dump_config_attributes.                                          *)

\* bit positions the values are built from; 30 and 31 are in no table
ProbeBits == {0, 1, 2, 4, 30, 31}

\* the attribute types whose value is a bitmask, each with its tag and table
BitmaskAttribs == <<
    [type |-> VAConfigAttribRTFormat,         tag |-> "rt_formats",            t |-> rt_format_types],
    [type |-> VAConfigAttribRateControl,      tag |-> "rate_control_modes",    t |-> rate_control_modes],
    [type |-> VAConfigAttribDecSliceMode,     tag |-> "decode_slice_modes",    t |-> decode_slice_modes],
    [type |-> VAConfigAttribEncPackedHeaders, tag |-> "packed_headers",        t |-> packed_headers],
    [type |-> VAConfigAttribEncInterlaced,    tag |-> "interlace_modes",       t |-> interlace_modes],
    [type |-> VAConfigAttribEncSliceStructure, tag |-> "slice_structure_modes", t |-> slice_structure_modes],
    [type |-> VAConfigAttribEncQuantization,  tag |-> "quantization",          t |-> quantization],
    [type |-> VAConfigAttribEncIntraRefresh,  tag |-> "intra_refresh",         t |-> intra_refresh]
>>

\* the word with exactly the bits of the set b
RECURSIVE Word(_)
Word(b) ==
    IF b = {} THEN 0
    ELSE LET n == CHOOSE x \in b : TRUE IN Pow2(n) + Word(b \ {n})

InitAttr ==
    /\ \E a \in 1..Len(BitmaskAttribs) : \E b \in SUBSET ProbeBits :
           loc = [attr |-> a, bits |-> b, value |-> Word(b), rt_formats |-> 0]
    /\ pretty_print \in BOOLEAN
    /\ indent_size = 4
    /\ indent_depth = 0
    /\ out = <<>>
    /\ calls = <<>>
    /\ pc = "attr"
    /\ NoDevice

\* one pass of the loop over attr_list in dump_config_attributes
DecodeAttribute ==
    /\ pc = "attr"
    /\ LET A == dump_config_attribute_slot([cs |-> <<>>, rt_formats |-> loc.rt_formats],
                                           BitmaskAttribs[loc.attr].type, loc.value)
           w == Run(Writer, A.cs)
       IN  /\ indent_depth' = w.d
           /\ out' = w.o
           /\ loc' = [loc EXCEPT !.rt_formats = A.rt_formats]
    /\ pc' = "attr_done"
    /\ UNCHANGED <<dump_mask, indent_size, pretty_print, calls, dev, failures, queries,
                   errs, live, heap, argv>>

NextAttr == DecodeAttribute

SpecAttr == InitAttr /\ [][NextAttr]_vars

-----------------------------------------------------------------------------
(* Reading the output back. *)

IsStart(c) == c.op \in {"start_array", "start_object"}
IsEnd(c)   == c.op \in {"end_array", "end_object"}

\* starts minus ends among calls i..k
RECURSIVE Net(_, _, _)
Net(cs, i, k) ==
    IF k < i THEN 0
    ELSE Net(cs, i, k - 1) + (IF IsStart(cs[k]) THEN 1 ELSE IF IsEnd(cs[k]) THEN -1 ELSE 0)

\* calls i..j open and close the same number of containers and never close
\* one that was open before call i
Balanced(cs, i, j) ==
    /\ Net(cs, i, j) = 0
    /\ \A k \in i..j : Net(cs, i, k) >= 0

\* the nesting depth of the line call k writes, counted from the calls alone
\* (an opening line is written before the depth is raised)
LineDepth(cs, i, k) ==
    cs[i].d0 + Net(cs, i, k) - (IF IsStart(cs[k]) THEN 1 ELSE 0)

\* number of spaces at the start of the k-th line of a pretty output o, in
\* which every chunk ends its line
Lead(o, k) == o[k].ind

\* o without indentation, the space after a tag and newlines
StripWS(o) == [i \in 1..Len(o) |-> [o[i] EXCEPT !.ind = 0, !.sp = 0, !.nl = 0]]

\* the output of the calls cs in mode pp, from an empty sink
RECURSIVE Replay(_, _, _)
Replay(cs, n, w0) ==
    IF n = 0 THEN w0 ELSE Apply(Replay(cs, n - 1, w0), cs[n])

-----------------------------------------------------------------------------
(* C7: after a balanced sequence of writer calls indent_depth is back at   *)
(* its value before the sequence, and in pretty mode every line written    *)
(* within the sequence (started at a depth >= 0) begins with exactly        *)
(* depth * indent_size spaces, the depth of a closing line being the depth *)
(* after the decrement.                                                    *)
C7_BalancedDepthAndIndent ==
    pc = "writer" =>
        \A i \in 1..Len(calls) : \A j \in i..Len(calls) :
            Balanced(calls, i, j) =>
                /\ calls[j].d1 = calls[i].d0
                /\ (pretty_print /\ calls[i].d0 >= 0) =>
                       \A k \in i..j :
                           /\ out[k].nl = 1
                           /\ Lead(out, k) = LineDepth(calls, i, k) * indent_size

\* a nested balanced sequence has been written with a non-zero width
C7_Witness ==
    /\ pc = "writer" /\ pretty_print /\ indent_size = 1
    /\ Len(calls) = 4
    /\ IsStart(calls[1]) /\ IsStart(calls[2]) /\ IsEnd(calls[3]) /\ IsEnd(calls[4])
    /\ indent_depth = 0

(* C8: the compact output of a sequence of writer calls equals its pretty  *)
(* output with indentation, the space after each tag and newlines removed. *)
C8_CompactIsPrettyStripped ==
    pc = "writer" =>
        LET other == Replay(calls, Len(calls),
                            [d |-> 0, o |-> <<>>, pp |-> ~pretty_print, sz |-> indent_size]).o
            pretty  == IF pretty_print THEN out ELSE other
            compact == IF pretty_print THEN other ELSE out
        IN  StripWS(pretty) = compact

\* tagged containers and scalars have been written in pretty mode
C8_Witness ==
    /\ pc = "writer" /\ pretty_print /\ indent_size > 0
    /\ Len(calls) = 4
    /\ calls[1].op = "start_object" /\ calls[2].op = "print_string" /\ calls[2].tag # NULL
    /\ calls[3].op = "start_array" /\ calls[3].tag # NULL /\ calls[4].op = "end_array"

-----------------------------------------------------------------------------
(* Reading the document back from the output of a run. *)

Opens(c)  == c.txt \in {"[", "{"}
Closes(c) == c.txt \in {"],", "},"}

\* nesting level of chunk k: 0 for the root braces, 1 for the root's members
Level(o, k) ==
    Cardinality({j \in 1..(k - 1) : Opens(o[j])}) - Cardinality({j \in 1..k : Closes(o[j])})

\* what print_tag writes for a tag
Key(tag) == "\"" \o tag \o "\":"

\* the tags of the members of the root object
RootKeys(o) == {o[k].tag : k \in {j \in 1..Len(o) : o[j].tag # "" /\ Level(o, j) = 1}}

\* the chunk that opens the container chunk k lies in
Parent(o, k) ==
    LET m == {j \in 1..(k - 1) : Opens(o[j]) /\ Level(o, j) = Level(o, k) - 1}
    IN  CHOOSE j \in m : \A i \in m : i <= j

\* the chunks that close the container opened by chunk k
ClosesOf(o, k) == {j \in (k + 1)..Len(o) : Closes(o[j]) /\ Level(o, j) = Level(o, k)}

\* the container opened by chunk k is closed, by the delimiter of its kind
Complete(o, k) ==
    /\ ClosesOf(o, k) # {}
    /\ LET e == CHOOSE j \in ClosesOf(o, k) : \A i \in ClosesOf(o, k) : j <= i
       IN  o[e].txt = (IF o[k].txt = "{" THEN "}," ELSE "],")

\* the members of the container opened by chunk k
Members(o, k) ==
    {j \in (k + 1)..Len(o) :
        /\ Level(o, j) = Level(o, k) + 1
        /\ \A e \in ClosesOf(o, k) : j < e}

\* the objects of the profiles array, and the n-th of them
ProfileObjects(o) ==
    {k \in 1..Len(o) :
        /\ o[k].txt = "{" /\ o[k].tag = ""
        /\ Level(o, k) = 2
        /\ o[Parent(o, k)].tag = Key("profiles")}

NthProfileObject(o, n) ==
    CHOOSE k \in ProfileObjects(o) : Cardinality({j \in ProfileObjects(o) : j < k}) = n - 1

\* section name is in the selection mask, read off the mask's binary digits
Selected(name) == (dump_mask \div Pow2(name)) % 2 = 1

\* the logged calls of libva function call
Issued(call) == {n \in 1..Len(queries) : queries[n].call = call}

\* vaQueryConfigEntrypoints was called for profile P and failed
EntrypointQueryFailed(P) ==
    \E n \in Issued("vaQueryConfigEntrypoints") : queries[n].a = <<P>> /\ ~queries[n].ok

-----------------------------------------------------------------------------
(* C1, as the code has it: when the entry point query fails for a profile  *)
(* P, the finished document holds one complete object for every profile    *)
(* the driver listed, before and after P, each starting with its `profile`  *)
(* number, and the object of P holds an `entrypoints` array that is empty.  *)
C1_SiblingsCompleteEmptyEntrypoints ==
    pc = "done" =>
        \A i \in 1..Len(DevProfiles(dev)) :
            EntrypointQueryFailed(DevProfiles(dev)[i]) =>
                /\ Cardinality(ProfileObjects(out)) = Len(DevProfiles(dev))
                /\ \A n \in 1..Len(DevProfiles(dev)) :
                       LET k == NthProfileObject(out, n)
                       IN  /\ Complete(out, k)
                           /\ out[k + 1].tag = Key("profile")
                           /\ out[k + 1].txt = ToString(DevProfiles(dev)[n]) \o ","
                /\ LET k == NthProfileObject(out, i)
                       e == {j \in Members(out, k) : out[j].tag = Key("entrypoints")}
                   IN  /\ Cardinality(e) = 1
                       /\ \A j \in e : out[j].txt = "[" /\ out[j + 1].txt = "],"

\* the entry point query has failed for the middle one of three profiles
C1_Witness ==
    /\ pc = "done"
    /\ Len(DevProfiles(dev)) = 3
    /\ EntrypointQueryFailed(DevProfiles(dev)[2])
    /\ Cardinality(Issued("vaQueryConfigEntrypoints")) = 3

\* C1 as stated: the object of the profile whose entry point query failed
\* has no `entrypoints` key
C1_NoEntrypointsKey ==
    pc = "done" =>
        \A i \in 1..Len(DevProfiles(dev)) :
            EntrypointQueryFailed(DevProfiles(dev)[i]) =>
                \A j \in Members(out, NthProfileObject(out, i)) :
                    out[j].tag # Key("entrypoints")

-----------------------------------------------------------------------------
\* the call sites that lie inside dump_filters after its vaCreateConfig
InFilterProbe ==
    pc \in {"dump_filters_context", "dump_filters_query", "dump_filter_caps",
            "dump_filter_pipelines", "dump_filter_pipelines_buffer", "dump_pipeline_caps"}

\* the objects the filter probe created
FilterProbeObjects ==
    {r \in live : r.by \in {"dump_filters", "dump_filters_context",
                            "dump_filter_pipelines_buffer"}}

(* C2 as stated: once dump_filters has returned, no configuration, context *)
(* or parameter buffer created by the filter probe is still live.          *)
C2_FilterProbeReleasesAll ==
    ~InFilterProbe => FilterProbeObjects = {}

-----------------------------------------------------------------------------
\* the call sites inside dump_surface_attributes after its vaCreateConfig
InSurfaceProbe ==
    pc \in {"dump_surface_attributes_count", "dump_surface_attributes_list"}

SurfaceConfigs == {r \in live : r.by = "dump_surface_attributes"}

(* C3 as stated: at most one configuration of dump_surface_attributes is    *)
(* live at any time, none is live when the next one is created, and none   *)
(* is live after the function has returned.                                *)
C3_SurfaceConfigScoped ==
    /\ Cardinality(SurfaceConfigs) <= 1
    /\ ~InSurfaceProbe => SurfaceConfigs = {}

-----------------------------------------------------------------------------
(* C4: a run whose mask holds only image-formats makes no call but the     *)
(* vendor string query, the image format queries and vaTerminate, and its  *)
(* root object has no `profiles` key.                                      *)
C4_ImageFormatsOnly ==
    dump_mask = Pow2(DUMP_IMAGE_FORMATS) =>
        /\ \A n \in 1..Len(queries) :
               queries[n].call \in {"vaQueryVendorString", "vaMaxNumImageFormats",
                                    "vaQueryImageFormats", "vaTerminate"}
        /\ Key("profiles") \notin RootKeys(out)

\* such a run has finished and has written its image formats
C4_Witness ==
    /\ pc = "done"
    /\ dump_mask = Pow2(DUMP_IMAGE_FORMATS)
    /\ \E n \in Issued("vaQueryImageFormats") : queries[n].ok
    /\ Key("image_formats") \in RootKeys(out)
    /\ Len(DevImageFormats(dev)) > 0

-----------------------------------------------------------------------------
\* the parts of C5 that do not concern vaQueryVideoProcFilterCaps
C5_OtherSections ==
    /\ Issued("vaGetConfigAttributes") # {} => Selected(DUMP_ATTRIBUTES)
    /\ Issued("vaQuerySurfaceAttributes") # {} => Selected(DUMP_SURFACE_FORMATS)
    /\ Issued("vaQueryVideoProcFilters") # {} => Selected(DUMP_FILTERS)
    /\ Issued("vaQueryVideoProcPipelineCaps") # {} => Selected(DUMP_PIPELINE_CAPS)

(* C5, as the code has it: a section whose flag is absent issues none of   *)
(* its queries, where vaQueryVideoProcFilterCaps belongs to two sections:  *)
(* dump_filter_caps calls it only under filter-caps, dump_filter_pipelines *)
(* only under pipeline-caps, so it is absent when both flags are absent.   *)
C5_AbsentSectionNoQuery ==
    /\ C5_OtherSections
    /\ \A n \in Issued("vaQueryVideoProcFilterCaps") :
           /\ queries[n].site = "dump_filter_caps" => Selected(DUMP_FILTER_CAPS)
           /\ queries[n].site = "dump_filter_pipelines" => Selected(DUMP_PIPELINE_CAPS)
           /\ Selected(DUMP_FILTER_CAPS) \/ Selected(DUMP_PIPELINE_CAPS)

\* a filter has been probed with pipeline-caps selected and filter-caps not
C5_Witness ==
    /\ ~Selected(DUMP_FILTER_CAPS)
    /\ ~Selected(DUMP_SURFACE_FORMATS)
    /\ Selected(DUMP_PIPELINE_CAPS)
    /\ Issued("vaQueryVideoProcFilterCaps") # {}
    /\ Issued("vaQueryVideoProcPipelineCaps") # {}

\* C5 as stated: no vaQueryVideoProcFilterCaps at all when filter-caps is
\* absent, whatever else is selected
C5_NoFilterCapsQueryWithoutFlag ==
    /\ C5_OtherSections
    /\ Issued("vaQueryVideoProcFilterCaps") # {} => Selected(DUMP_FILTER_CAPS)

-----------------------------------------------------------------------------
\* the entries of table t whose bit is one of the bits b the value was built from
Marked(t, b) == {j \in 1..Len(t) : \E n \in b : t[j].value = Pow2(n)}

(* C6: for a bitmask attribute (one the driver supports) the array written *)
(* holds exactly the names of the table entries whose bit is set in the    *)
(* value, each once, in the order of the table; a bit no entry has adds    *)
(* nothing.                                                                *)
C6_FlagsInTableOrder ==
    (pc = "attr_done" /\ loc.value # VA_ATTRIB_NOT_SUPPORTED) =>
        LET t == BitmaskAttribs[loc.attr].t
            m == Marked(t, loc.bits)
            n == Len(out) - 2
            \* the table entry the k-th element names
            Entry(k) == {j \in 1..Len(t) : out[k + 1].txt = "\"" \o t[j].name \o "\","}
        IN  /\ n = Cardinality(m)
            /\ out[1].tag = Key(BitmaskAttribs[loc.attr].tag) /\ out[1].txt = "["
            /\ Closes(out[n + 2])
            /\ \A k \in 1..n :
                   /\ out[k + 1].tag = ""
                   /\ Cardinality(Entry(k)) = 1
                   /\ Entry(k) \subseteq m
            /\ \A k1 \in 1..n : \A k2 \in 1..n :
                   k1 < k2 => \A j1 \in Entry(k1) : \A j2 \in Entry(k2) : j1 < j2

\* slice structure modes 0x10 and 0x1 are set together with two bits of no
\* entry: the table lists 0x10 first
C6_Witness ==
    /\ pc = "attr_done"
    /\ BitmaskAttribs[loc.attr].type = VAConfigAttribEncSliceStructure
    /\ loc.bits = {0, 4, 30, 31}
    /\ Len(out) = 4
    /\ out[2].txt = "\"ARBITRARY_ROWS\"," /\ out[3].txt = "\"POWER_OF_TWO_ROWS\","

-----------------------------------------------------------------------------
\* the root keys a mask selects, next to the three of the header
ExpectedRootKeys ==
    {Key("build_version"), Key("driver_version"), Key("driver_vendor")}
    \cup (IF Selected(DUMP_PROFILES) THEN {Key("profiles")} ELSE {})
    \cup (IF Selected(DUMP_IMAGE_FORMATS) THEN {Key("image_formats")} ELSE {})
    \cup (IF Selected(DUMP_SUBPICTURE_FORMATS) THEN {Key("subpicture_formats")} ELSE {})

(* C9: whatever the mask and whichever queries fail, the keys of the root  *)
(* object of the finished document are the three header keys and one key   *)
(* for each of profiles, image-formats, subpicture-formats that is         *)
(* selected.                                                               *)
C9_RootKeys ==
    pc = "done" => RootKeys(out) = ExpectedRootKeys

\* a run has finished in which the profile list query failed
C9_Witness ==
    /\ pc = "done"
    /\ Selected(DUMP_PROFILES) /\ ~Selected(DUMP_IMAGE_FORMATS)
    /\ Selected(DUMP_SUBPICTURE_FORMATS)
    /\ \E n \in Issued("vaQueryConfigProfiles") : ~queries[n].ok

-----------------------------------------------------------------------------
\* the sections the options of the command line name
Given ==
    {n \in 0..(DUMP_MAX - 1) :
        \E i \in 1..Len(argv) : argv[i] = SectionOptions[n + 1] \/ argv[i] = "a"}

(* C10: the mask a run works with is the union of the sections its options *)
(* name, or all nine sections when they name none; nothing but the mask    *)
(* carries the options into the traversal, so a run without section        *)
(* options is a run with all nine.                                         *)
C10_MaskIsUnionOrAll ==
    pc # "writer" /\ pc # "attr" /\ pc # "attr_done" =>
        \A n \in 0..(DUMP_MAX - 1) : Selected(n) <=> (Given = {} \/ n \in Given)

\* a run without options has finished and has written all three root sections
C10_Witness ==
    /\ pc = "done"
    /\ argv = <<>>
    /\ failures = 0
    /\ Key("subpicture_formats") \in RootKeys(out)
    /\ Issued("vaQueryConfigProfiles") # {}
    /\ Issued("vaQueryImageFormats") # {}

-----------------------------------------------------------------------------
\* the function a call site lies in
FunctionOf(site) ==
    CASE site \in {"dump_surface_attributes", "dump_surface_attributes_count",
                   "dump_surface_attributes_list"} -> "dump_surface_attributes"
      [] site \in {"dump_filters", "dump_filters_context", "dump_filters_query"} ->
            "dump_filters"
      [] site \in {"dump_filter_pipelines", "dump_filter_pipelines_buffer"} ->
            "dump_filter_pipelines"
      [] OTHER -> site

PipelineSites == {"dump_filter_pipelines", "dump_filter_pipelines_buffer", "dump_pipeline_caps"}
FilterSites ==
    {"dump_filters", "dump_filters_context", "dump_filters_query", "dump_filter_caps"}
    \cup PipelineSites
EntrypointSites ==
    {"dump_entrypoints", "dump_config_attributes", "dump_surface_attributes",
     "dump_surface_attributes_count", "dump_surface_attributes_list"} \cup FilterSites

\* the call sites of function F and of the functions it calls
SitesBelow(F) ==
    CASE F = "dump_profiles" -> {"dump_profiles"} \cup EntrypointSites
      [] F = "dump_entrypoints" -> EntrypointSites
      [] F = "dump_surface_attributes" ->
            {"dump_surface_attributes", "dump_surface_attributes_count",
             "dump_surface_attributes_list"}
      [] F = "dump_filters" -> FilterSites
      [] F = "dump_filter_pipelines" -> PipelineSites
      [] OTHER -> {F}

\* the tag of the container function F is called in: the array or object
\* its caller opens for it, or the untagged object of the entry point or
\* filter the caller is writing
EnclosingTag(F) ==
    CASE F = "dump_profiles" -> Key("profiles")
      [] F = "dump_entrypoints" -> Key("entrypoints")
      [] F = "dump_config_attributes" -> Key("attributes")
      [] F = "dump_surface_attributes" -> Key("surface_formats")
      [] F = "dump_image_formats" -> Key("image_formats")
      [] F = "dump_subpicture_formats" -> Key("subpicture_formats")
      [] OTHER -> ""

\* the chunk that opened the container the closing chunk j closes
Opener(o, j) ==
    LET m == {k \in 1..(j - 1) : Opens(o[k]) /\ Level(o, k) = Level(o, j)}
    IN  CHOOSE k \in m : \A i \in m : i <= k

Failed == {n \in 1..Len(queries) : ~queries[n].ok}

(* C11: every failed query is reported once; the function F it was made   *)
(* in makes no further call and writes nothing more: what is written next *)
(* is the caller closing the container F was called in, and when nothing  *)
(* is written before the next call, that call is not one of F's own or of *)
(* a function F calls.                                                    *)
C11_FailureEndsFunction ==
    /\ errs = Cardinality(Failed)
    /\ \A n \in Failed :
           LET F     == FunctionOf(queries[n].site)
               first == queries[n].at + 1
               until == IF n < Len(queries) THEN queries[n + 1].at ELSE Len(out)
           IN  /\ until >= first =>
                      /\ Closes(out[first])
                      /\ out[Opener(out, first)].tag = EnclosingTag(F)
               /\ (n < Len(queries) /\ until < first) =>
                      queries[n + 1].site \notin SitesBelow(F)

\* the filter list query of dump_filters has failed and the run has finished
C11_Witness ==
    /\ pc = "done"
    /\ \E n \in Failed :
           /\ queries[n].site = "dump_filters_query"
           /\ out[queries[n].at + 1].txt = "},"
           /\ queries[n + 1].call = "vaMaxNumSubpictureFormats"

-----------------------------------------------------------------------------
\* the run is over: the root object is closed and vaTerminate was the last call
Finished ==
    /\ pc = "done"
    /\ Len(out) > 0 /\ out[1].txt = "{"
    /\ out[Len(out)].txt = "}," /\ Level(out, Len(out)) = 0
    /\ Len(queries) > 0 /\ queries[Len(queries)].call = "vaTerminate"

(* C12: whatever the mask and whichever queries fail, the run comes to    *)
(* write the closing brace of the root object and to call vaTerminate,    *)
(* and no step takes back or changes output already written.              *)
C12_RunsToCompletion ==
    /\ [][Len(out') >= Len(out) /\ SubSeq(out', 1, Len(out)) = out]_vars
    /\ <>Finished

\* a run in which a query failed has finished with its document closed
C12_Witness ==
    /\ Finished
    /\ errs = 1
    /\ Key("profiles") \in RootKeys(out)
    /\ \E n \in Failed : queries[n].site = "dump_entrypoints"

-----------------------------------------------------------------------------
(* One slot of attr_list of any type: the types the model decodes and the  *)
(* types for which the switch of dump_config_attributes has no case, with  *)
(* any value built from the bits ProbeBits (bit 31 alone is the sentinel). *)

\* VAConfigAttribType codes below VAConfigAttribTypeMax that no case label
\* of the switch names
UndecodedTypes == {1, 2, 3, 4, 9, 12, 17}

SlotTypes ==
    {VAConfigAttribRTFormat, VAConfigAttribRateControl, VAConfigAttribEncMaxRefFrames,
     VAConfigAttribEncMaxSlices, VAConfigAttribEncIntraRefresh} \cup UndecodedTypes

InitSlot ==
    /\ \E t \in SlotTypes : \E b \in SUBSET ProbeBits :
           loc = [type |-> t, value |-> Word(b), rt_formats |-> 0]
    /\ pretty_print \in BOOLEAN
    /\ indent_size = 4
    /\ indent_depth = 0
    /\ out = <<>>
    /\ calls = <<>>
    /\ pc = "slot"
    /\ NoDevice

\* one pass of the loop over attr_list in dump_config_attributes
DecodeSlot ==
    /\ pc = "slot"
    /\ LET A == dump_config_attribute_slot([cs |-> <<>>, rt_formats |-> loc.rt_formats],
                                           loc.type, loc.value)
           w == Run(Writer, A.cs)
       IN  /\ indent_depth' = w.d
           /\ out' = w.o
           /\ loc' = [loc EXCEPT !.rt_formats = A.rt_formats]
    /\ pc' = "slot_done"
    /\ UNCHANGED <<dump_mask, indent_size, pretty_print, calls, dev, failures, queries,
                   errs, live, heap, argv>>

NextSlot == DecodeSlot

SpecSlot == InitSlot /\ [][NextSlot]_vars

(* C13: a slot whose value is the not-supported sentinel writes nothing;   *)
(* a slot with any other value whose type has no case in the switch writes *)
(* exactly one object tagged "unknown" holding the numeric type and the    *)
(* unsigned value.                                                         *)
C13_UnknownObjectOrNothing ==
    pc = "slot_done" =>
        /\ loc.value = VA_ATTRIB_NOT_SUPPORTED => (out = <<>> /\ loc.rt_formats = 0)
        /\ (loc.value # VA_ATTRIB_NOT_SUPPORTED /\ loc.type \in UndecodedTypes) =>
               /\ Len(out) = 4
               /\ out[1].tag = Key("unknown") /\ out[1].txt = "{"
               /\ out[2].tag = Key("type") /\ out[2].txt = ToString(loc.type) \o ","
               /\ out[3].tag = Key("value") /\ out[3].txt = Dec32(loc.value) \o ","
               /\ out[4].tag = "" /\ out[4].txt = "},"

\* a slot of type 9 whose value has bit 31 and bit 0 set has been written
C13_Witness ==
    /\ pc = "slot_done" /\ loc.type = 9 /\ loc.value = VA_ATTRIB_NOT_SUPPORTED + 1
    /\ Len(out) = 4 /\ out[3].txt = "2147483649,"

-----------------------------------------------------------------------------
(* C14: every code looked up in a name table is written with the name of   *)
(* the first entry that matches it, and a code no entry matches is written *)
(* with an "unknown" marker in its object.  Stated for the lookups of the  *)
(* profile, entry point and filter loops at the end of a run.              *)
NameLookups == <<
    [tag |-> "profile",    f |-> "profile",    t |-> profiles],
    [tag |-> "entrypoint", f |-> "entrypoint", t |-> entrypoints],
    [tag |-> "filter",     f |-> "filter",     t |-> filters]
>>

\* the object chunk k lies in has a member that says "unknown"
MarkedUnknown(o, k) ==
    \E m \in 1..Len(o) :
        /\ m # k /\ Level(o, m) = Level(o, k) /\ Parent(o, m) = Parent(o, k)
        /\ (o[m].txt = "\"unknown\"," \/ o[m].tag = Key("unknown"))

C14_NamedOrMarkedUnknown ==
    pc = "done" =>
        \A n \in 1..Len(NameLookups) : \A k \in 1..Len(out) :
            out[k].tag = Key(NameLookups[n].tag) =>
                LET t == NameLookups[n].t
                    m == {j \in 1..Len(t) : out[k].txt = ToString(t[j][NameLookups[n].f]) \o ","}
                IN  IF m # {}
                    THEN /\ out[k + 1].tag = Key("name")
                         /\ out[k + 1].txt = "\"" \o t[CHOOSE j \in m : \A i \in m : j <= i].name \o "\","
                    ELSE MarkedUnknown(out, k)

-----------------------------------------------------------------------------
(* C15: every configuration dump_filters creates for the filter probe      *)
(* carries exactly one pixel-format-class bit, and an entry point is       *)
(* probed once per bit set in its aggregate mask.                          *)
C15_FilterProbePerBit ==
    \A n \in 1..Len(queries) :
        (queries[n].call = "vaCreateConfig" /\ queries[n].site = "dump_filters") =>
            \E k \in 0..31 : queries[n].a[3] = Pow2(k)

-----------------------------------------------------------------------------
\* the capability query n of dump_filter_pipelines succeeded and left the
\* filter without a parameter buffer
NoBufferFor(n) ==
    /\ queries[n].site = "dump_filter_pipelines" /\ queries[n].ok
    /\ ~WantsBuffer(queries[n].a[2], DevFilterCaps(dev, queries[n].a[2]))

(* C16 as stated: a filter whose capability query succeeds with no entry   *)
(* (for deinterlacing, no algorithm above None) is still given a pipeline  *)
(* query, with no parameter buffers.                                       *)
C16_ZeroCapsStillQueried ==
    \A n \in 1..Len(queries) :
        (NoBufferFor(n) /\ n < Len(queries)) =>
            /\ queries[n + 1].call = "vaQueryVideoProcPipelineCaps"
            /\ queries[n + 1].a = <<queries[n].a[1], queries[n].a[2], 0>>

(* C16, amended: such a filter gets no parameter buffer and no pipeline    *)
(* query, and its object is closed without a pipeline member; the query    *)
(* with no buffers is issued for the None filter only, whose object holds  *)
(* a pipeline member when the query succeeds.                              *)
C16_ZeroCapsNoPipelineQuery ==
    \A n \in 1..Len(queries) :
        /\ NoBufferFor(n) =>
               /\ n < Len(queries) =>
                      queries[n + 1].call \notin {"vaCreateBuffer", "vaQueryVideoProcPipelineCaps"}
               /\ n < Len(queries) \/ queries[n].at < Len(out) =>
                      out[queries[n].at + 1].txt = "},"
        /\ queries[n].call = "vaQueryVideoProcPipelineCaps" =>
               /\ queries[n].a[3] = 0 <=> queries[n].a[2] = VAProcFilterNone
               /\ (queries[n].ok /\ (n < Len(queries) \/ queries[n].at < Len(out))) =>
                      /\ out[queries[n].at + 1].tag = Key("pipeline")
                      /\ out[queries[n].at + 1].txt = "{"

\* a run in which the colour balance filter reported no entry, after the
\* None filter was queried with no buffers
C16_Witness ==
    /\ pc = "done"
    /\ \E n \in 1..Len(queries) :
           /\ NoBufferFor(n) /\ queries[n].a[2] = VAProcFilterColorBalance
           /\ queries[n + 1].call # "vaQueryVideoProcPipelineCaps"
    /\ \E n \in 1..Len(queries) :
           /\ queries[n].call = "vaQueryVideoProcPipelineCaps" /\ queries[n].ok
           /\ queries[n].a[2] = VAProcFilterNone

-----------------------------------------------------------------------------
\* query m repeats the failed query n: the same call with the same arguments
Repeats(n, m) ==
    /\ n < m /\ ~queries[n].ok
    /\ queries[m].call = queries[n].call /\ queries[m].a = queries[n].a

-----------------------------------------------------------------------------
\* the entry points the run has entered: E of profile P, whose entry point
\* query succeeded
Visited ==
    {pe \in UNION {{<<queries[n].a[1], DevEntrypoints(dev, queries[n].a[1])[j]>> :
                       j \in 1..Len(DevEntrypoints(dev, queries[n].a[1]))} :
                   n \in {k \in Issued("vaQueryConfigEntrypoints") : queries[k].ok}} : TRUE}

\* the value the driver reports in the RTFormat slot of entry point pe
RtValue(pe) ==
    LET attrs == DevAttribs(dev, pe[1], pe[2])
        j     == Scan(attrs, "type", VAConfigAttribRTFormat)
    IN  IF j <= Len(attrs) THEN attrs[j].value ELSE VA_ATTRIB_NOT_SUPPORTED

\* what the aggregate mask of entry point pe has to be
Aggregate(pe) ==
    IF /\ Selected(DUMP_ATTRIBUTES)
       /\ \E n \in Issued("vaGetConfigAttributes") : queries[n].a = pe /\ queries[n].ok
       /\ RtValue(pe) # VA_ATTRIB_NOT_SUPPORTED
    THEN RtValue(pe) ELSE 0

(* C18: the aggregate mask of an entry point is the value of its RTFormat  *)
(* attribute when the attribute pass ran, succeeded and found it           *)
(* supported, and 0 otherwise; surface configurations are created and a    *)
(* surface_formats array written exactly for the entry points with         *)
(* surface-formats selected and a non-zero aggregate; the filter probe is  *)
(* entered exactly for a video processing entry point with filters         *)
(* selected, and is given the aggregate.                                   *)
C18_AggregateGatesSections ==
    /\ pc \in {"dump_surface_attributes", "dump_surface_attributes_count",
               "dump_surface_attributes_list", "dump_filters"} =>
           loc.rt_formats = Aggregate(<<profile(Cur), entrypoint(Cur)>>)
    /\ \A n \in 1..Len(queries) :
           /\ queries[n].site = "dump_surface_attributes" =>
                  /\ Selected(DUMP_SURFACE_FORMATS)
                  /\ Aggregate(<<queries[n].a[1], queries[n].a[2]>>) # 0
           /\ queries[n].site = "dump_filters" =>
                  /\ Selected(DUMP_FILTERS)
                  /\ \E pe \in Visited : pe[2] = VAEntrypointVideoProc
                                         /\ queries[n].a[3] = Aggregate(pe)
    /\ pc = "done" =>
           /\ \A pe \in Visited :
                  /\ (Selected(DUMP_SURFACE_FORMATS) /\ Aggregate(pe) # 0) =>
                         \E n \in 1..Len(queries) :
                             /\ queries[n].site = "dump_surface_attributes"
                             /\ pe = <<queries[n].a[1], queries[n].a[2]>>
                  /\ (Selected(DUMP_FILTERS) /\ pe[2] = VAEntrypointVideoProc) =>
                         \E n \in 1..Len(queries) : queries[n].site = "dump_filters"
           /\ Cardinality({k \in 1..Len(out) : out[k].tag = Key("surface_formats")})
                  = Cardinality({pe \in Visited :
                                    Selected(DUMP_SURFACE_FORMATS) /\ Aggregate(pe) # 0})

\* a finished run in which the attribute query of a video processing entry
\* point with a two-bit RTFormat value failed: no surface configuration was
\* created and the filter probe was given the mask 0
C18_Witness ==
    /\ pc = "done" /\ Selected(DUMP_SURFACE_FORMATS) /\ Selected(DUMP_FILTERS)
    /\ \E pe \in Visited :
           /\ pe[2] = VAEntrypointVideoProc /\ RtValue(pe) = 131073 /\ Aggregate(pe) = 0
           /\ Selected(DUMP_ATTRIBUTES)
    /\ \E n \in 1..Len(queries) : queries[n].site = "dump_filters" /\ queries[n].a[3] = 0

-----------------------------------------------------------------------------
(* dump_surface_attributes over every aggregate mask built from the bits   *)
(* SurfaceBits: one device per mask, each with one profile and one entry   *)
(* point whose RTFormat attribute is the mask; profiles, entry points,     *)
(* attributes and surface formats are selected.                            *)

InitSurface ==
    /\ argv = <<"p", "e", "t", "s">>
    /\ dev \in SurfaceDevices
    /\ LET o == ParseOptions([mask |-> 0, pp |-> TRUE], argv, 1)
       IN  dump_mask = o.mask /\ pretty_print = o.pp
    /\ indent_size = 4
    /\ indent_depth = 0
    /\ out = <<>>
    /\ calls = <<>>
    /\ pc = "main"
    /\ failures = 0
    /\ queries = <<>>
    /\ errs = 0
    /\ live = {}
    /\ heap = {}
    /\ loc = Locals0

NextSurface ==
    \/ main
    \/ dump_profiles
    \/ dump_entrypoints
    \/ dump_config_attributes
    \/ dump_surface_attributes
    \/ dump_surface_attributes_count
    \/ dump_surface_attributes_list
    \/ main_end

\* the program is one thread and every libva call returns
SpecSurface == InitSurface /\ [][NextSurface]_vars /\ WF_vars(NextSurface)

\* the vaCreateConfig calls of dump_surface_attributes, in the order made
SurfaceCreates == {n \in 1..Len(queries) : queries[n].site = "dump_surface_attributes"}

\* the bits set in the word x
BitsOf(x) == {k \in 0..31 : Bit(x, k)}

\* the objects of the surface_formats arrays
SurfaceObjects(o) ==
    {k \in 1..Len(o) : /\ o[k].txt = "{" /\ o[k].tag = "" /\ Level(o, k) > 0
                       /\ o[Parent(o, k)].tag = Key("surface_formats")}

(* C19: dump_surface_attributes creates configurations only for single    *)
(* bits that are set in the aggregate mask, in strictly increasing bit     *)
(* order (so at most one per set bit and at most 32), the scan ends and    *)
(* the run finishes, and when no query fails there is exactly one          *)
(* configuration and one surface format object per set bit.                *)
C19_OneConfigPerSetBit ==
    /\ [](/\ \A n \in SurfaceCreates :
                 /\ Cardinality(BitsOf(queries[n].a[3])) = 1
                 /\ BitsOf(queries[n].a[3]) \subseteq
                        BitsOf(Aggregate(<<queries[n].a[1], queries[n].a[2]>>))
                 /\ \A m \in SurfaceCreates :
                        m < n => \A j \in BitsOf(queries[m].a[3]) :
                                     \A k \in BitsOf(queries[n].a[3]) : j < k
          /\ (pc = "done" /\ errs = 0) =>
                 \A pe \in Visited :
                     /\ Cardinality(SurfaceCreates) = Cardinality(BitsOf(Aggregate(pe)))
                     /\ Cardinality(SurfaceObjects(out)) = Cardinality(BitsOf(Aggregate(pe))))
    /\ <>(pc = "done")

\* a finished run without failure over the mask with bits 0, 17 and 31:
\* three configurations, the last for bit 31
C19_Witness ==
    /\ pc = "done" /\ errs = 0
    /\ \E pe \in Visited : BitsOf(Aggregate(pe)) = {0, 17, 31}
    /\ Cardinality(SurfaceCreates) = 3 /\ Cardinality(SurfaceObjects(out)) = 3
    /\ \E n \in SurfaceCreates : queries[n].a[3] = VA_ATTRIB_NOT_SUPPORTED

-----------------------------------------------------------------------------
\* the two format sections of main: the flag, the list query, the key of
\* the array and the number of entries the driver returns
FormatSections == <<
    [flag |-> DUMP_IMAGE_FORMATS, call |-> "vaQueryImageFormats",
     key |-> "image_formats", count |-> Len(DevImageFormats(dev))],
    [flag |-> DUMP_SUBPICTURE_FORMATS, call |-> "vaQuerySubpictureFormats",
     key |-> "subpicture_formats", count |-> Len(DevSubpictureFormats(dev))]
>>

\* the objects of the array with the given key
ObjectsOf(o, key) ==
    LET lv == [k \in 1..Len(o) |-> Level(o, k)]
    IN  {k \in 1..Len(o) :
            /\ o[k].txt = "{" /\ o[k].tag = ""
            /\ \E a \in 1..(k - 1) :
                   /\ o[a].tag = Key(key) /\ Opens(o[a]) /\ lv[a] = lv[k] - 1
                   /\ \A i \in (a + 1)..(k - 1) : ~(Opens(o[i]) /\ lv[i] = lv[k] - 1)}

(* C20: whatever the profile traversal did, a selected image format or     *)
(* subpicture format section has issued its list query exactly once by the *)
(* end of the run and written its array at the root, with one object per   *)
(* entry the query returned (none when it failed); a failed image format   *)
(* query leaves the subpicture section in place.                           *)
C20_FormatSectionsIndependent ==
    pc = "done" =>
        \A s \in 1..Len(FormatSections) :
            LET X == FormatSections[s]
            IN  Selected(X.flag) =>
                    /\ Cardinality(Issued(X.call)) = 1
                    /\ Cardinality({k \in 1..Len(out) :
                                       out[k].tag = Key(X.key) /\ out[k].txt = "["
                                       /\ Level(out, k) = 1}) = 1
                    /\ \A n \in Issued(X.call) :
                           Cardinality(ObjectsOf(out, X.key))
                               = IF queries[n].ok THEN X.count ELSE 0

\* a finished run in which the image format query failed and the
\* subpicture section wrote its one format
C20_Witness ==
    /\ pc = "done"
    /\ \E n \in Issued("vaQueryImageFormats") : ~queries[n].ok
    /\ Cardinality(Issued("vaQuerySubpictureFormats")) = 1
    /\ Cardinality(ObjectsOf(out, "subpicture_formats")) = 1
    /\ ObjectsOf(out, "image_formats") = {}

-----------------------------------------------------------------------------
(* C21: the writer calls of the traversal are nested: every closing        *)
(* delimiter written is the one of the kind of the innermost container     *)
(* still open ("]," after start_array, "}," after start_object).           *)
C21_WriterCallsNested ==
    \A j \in 1..Len(out) :
        Closes(out[j]) =>
            (out[j].txt = "]," <=> out[Opener(out, j)].txt = "[")

-----------------------------------------------------------------------------
\* the chunks that carry the code of a filter, and the n-th of them
FilterChunks(o) == {k \in 1..Len(o) : o[k].tag = Key("filter")}

NthFilterChunk(o, i) ==
    CHOOSE k \in FilterChunks(o) : Cardinality({j \in FilterChunks(o) : j <= k}) = i

\* the filters a successful enumeration makes the loop of dump_filters visit
LoopFilters == <<VAProcFilterNone>> \o DevFilters(dev)

(* C22: after a successful filter enumeration with n filters the filters   *)
(* array holds n + 1 objects, the None filter first and the enumerated     *)
(* filters in driver order; no capability query is issued for the None     *)
(* filter; with pipeline-caps selected the first call after the            *)
(* enumeration is the pipeline query of the None filter with no buffers;   *)
(* capability queries and their output exist only with filter-caps         *)
(* selected and for a filter other than None.                              *)
C22_ImplicitNoneFilterFirst ==
    /\ \A n \in 1..Len(queries) :
           /\ queries[n].call = "vaQueryVideoProcFilterCaps" =>
                  queries[n].a[2] # VAProcFilterNone
           /\ queries[n].site = "dump_filter_caps" => Selected(DUMP_FILTER_CAPS)
           /\ (queries[n].call = "vaQueryVideoProcFilters" /\ queries[n].ok
               /\ Selected(DUMP_PIPELINE_CAPS) /\ n < Len(queries)) =>
                  /\ queries[n + 1].call = "vaQueryVideoProcPipelineCaps"
                  /\ queries[n + 1].a = <<queries[n].a[1], VAProcFilterNone, 0>>
    /\ \A k \in FilterChunks(out) :
           (k + 2 <= Len(out)
            /\ (out[k].txt = ToString(VAProcFilterNone) \o "," \/ ~Selected(DUMP_FILTER_CAPS))) =>
               out[k + 2].txt = "}," \/ out[k + 2].tag = Key("pipeline")
    /\ pc = "done" =>
           \A n \in Issued("vaQueryVideoProcFilters") :
               queries[n].ok =>
                   LET objs == ObjectsOf(out, "filters")
                   IN  /\ Cardinality(objs) = Len(LoopFilters)
                       /\ Cardinality(FilterChunks(out)) = Len(LoopFilters)
                       /\ \A i \in 1..Len(LoopFilters) :
                              /\ out[NthFilterChunk(out, i)].txt
                                     = ToString(LoopFilters[i]) \o ","
                              /\ NthFilterChunk(out, i) - 1 \in objs

\* a finished run over three enumerated filters with filter-caps and
\* pipeline-caps selected: four filter objects, the first for None
C22_Witness ==
    /\ pc = "done" /\ errs = 0
    /\ Selected(DUMP_FILTER_CAPS) /\ Selected(DUMP_PIPELINE_CAPS)
    /\ Cardinality(ObjectsOf(out, "filters")) = 4
    /\ out[NthFilterChunk(out, 1)].txt = "0,"
    /\ out[NthFilterChunk(out, 1) + 2].tag = Key("pipeline")
    /\ \E n \in 1..Len(queries) : queries[n].site = "dump_filter_caps"

-----------------------------------------------------------------------------
(* The deinterlacing case of dump_filter_pipelines on its own: the driver  *)
(* reports up to MaxDeintCaps entries with algorithm codes below           *)
(* VAProcDeinterlacingCount, in any order and with repetitions, and the    *)
(* case chooses the algorithm of the parameter buffer.                     *)

VAProcDeinterlacingCount == 5

DeintLists ==
    UNION {[1..n -> [type : 0..(VAProcDeinterlacingCount - 1)]] : n \in 0..MaxDeintCaps}

InitDeint ==
    /\ \E caps \in DeintLists :
           loc = [caps |-> caps, deint_type |-> VAProcDeinterlacingNone, buffer |-> FALSE]
    /\ pretty_print = TRUE
    /\ indent_size = 4
    /\ indent_depth = 0
    /\ out = <<>>
    /\ calls = <<>>
    /\ pc = "deint"
    /\ NoDevice

\* from the successful capability query to the test that guards
\* vaCreateBuffer
ChooseDeintType ==
    /\ pc = "deint"
    /\ loc' = [loc EXCEPT !.deint_type = MaxDeintType(loc.caps, 1, VAProcDeinterlacingNone),
                          !.buffer = WantsBuffer(VAProcFilterDeinterlacing, loc.caps)]
    /\ pc' = "deint_done"
    /\ UNCHANGED <<dump_mask, indent_depth, indent_size, pretty_print, out, calls, dev,
                   failures, queries, errs, live, heap, argv>>

NextDeint == ChooseDeintType

SpecDeint == InitDeint /\ [][NextDeint]_vars

(* C23: the algorithm chosen for the deinterlacing parameter buffer is the *)
(* greatest algorithm code among the reported entries, whatever their      *)
(* order (None when there is no entry), and the buffer is created exactly  *)
(* when that code is above None.                                           *)
C23_HighestDeintAlgorithm ==
    pc = "deint_done" =>
        /\ \A j \in 1..Len(loc.caps) : loc.caps[j].type <= loc.deint_type
        /\ \/ loc.deint_type = VAProcDeinterlacingNone
           \/ \E j \in 1..Len(loc.caps) : loc.caps[j].type = loc.deint_type
        /\ loc.buffer <=> loc.deint_type > VAProcDeinterlacingNone

\* the greatest code is reported first and a lower one last
C23_Witness ==
    /\ pc = "deint_done" /\ Len(loc.caps) = 3
    /\ loc.caps[1].type = 4 /\ loc.caps[2].type = 0 /\ loc.caps[3].type = 2
    /\ loc.deint_type = 4 /\ loc.buffer

-----------------------------------------------------------------------------
\* the parameter buffers created (a buffer is known by the number of the
\* call that created it) and the vaDestroyBuffer calls
CreatedBuffers == {n \in Issued("vaCreateBuffer") : queries[n].ok}

BufferDestroys == Issued("vaDestroyBuffer")

(* C24: a parameter buffer that vaCreateBuffer created is passed to the    *)
(* pipeline query and destroyed right after it, whether the query          *)
(* succeeded or failed, and is destroyed once; vaDestroyBuffer is called   *)
(* for created buffers only, never after a query made with no buffer; no   *)
(* buffer is live outside dump_filter_pipelines.                           *)
C24_BufferDestroyedOnce ==
    /\ \A n \in CreatedBuffers :
           n < Len(queries) =>
               /\ n + 2 <= Len(queries)
               /\ queries[n + 1].call = "vaQueryVideoProcPipelineCaps"
               /\ queries[n + 1].a[3] = 1
               /\ queries[n + 2].call = "vaDestroyBuffer" /\ queries[n + 2].a = <<n>>
    /\ \A m \in BufferDestroys :
           /\ queries[m].a[1] # VA_INVALID_ID
           /\ queries[m].a[1] \in CreatedBuffers
           /\ m = queries[m].a[1] + 2
    /\ \A r \in live :
           r.kind = "buffer" =>
               /\ pc = "dump_pipeline_caps"
               /\ r.id = Len(queries) /\ r.id \in CreatedBuffers

\* a buffer was created, the pipeline query made with it failed, and the
\* buffer was destroyed; an earlier query with no buffer was followed by no
\* vaDestroyBuffer
C24_Witness ==
    /\ \E n \in CreatedBuffers :
           /\ n + 2 <= Len(queries) /\ ~queries[n + 1].ok
           /\ queries[n + 2].call = "vaDestroyBuffer"
           /\ \A r \in live : r.kind # "buffer"
    /\ \E n \in 1..(Len(queries) - 1) :
           /\ queries[n].call = "vaQueryVideoProcPipelineCaps" /\ queries[n].a[3] = 0
           /\ queries[n + 1].call # "vaDestroyBuffer"

-----------------------------------------------------------------------------
\* the calls that fetch a list, and the size-discovery call of each list
\* that has one
SizeDiscovery == <<
    [fetch |-> "vaQueryConfigProfiles",    size |-> "vaMaxNumProfiles"],
    [fetch |-> "vaQueryConfigEntrypoints", size |-> "vaMaxNumEntrypoints"],
    [fetch |-> "vaQueryImageFormats",      size |-> "vaMaxNumImageFormats"],
    [fetch |-> "vaQuerySubpictureFormats", size |-> "vaMaxNumSubpictureFormats"]
>>

\* fetches into an array whose capacity is a constant of the library
FixedCapacityFetches ==
    {"vaGetConfigAttributes", "vaQueryVideoProcFilters", "vaQueryVideoProcFilterCaps"}

\* call n fetches the surface attribute list; call n is the count-only call
SurfaceFetch(n) == queries[n].site = "dump_surface_attributes_list"
SurfaceCount(n) == queries[n].site = "dump_surface_attributes_count"

\* call n asks for the size of a list
IsSizeDiscovery(n) ==
    \/ SurfaceCount(n)
    \/ \E s \in 1..Len(SizeDiscovery) : queries[n].call = SizeDiscovery[s].size

\* call n fetches a list
IsFetch(n) ==
    \/ SurfaceFetch(n)
    \/ queries[n].call \in FixedCapacityFetches
    \/ \E s \in 1..Len(SizeDiscovery) : queries[n].call = SizeDiscovery[s].fetch

-----------------------------------------------------------------------------
\* the function a call site belongs to, for the sites FunctionOf leaves out
FunctionAt(site) ==
    IF site \in PipelineSites THEN "dump_filter_pipelines" ELSE FunctionOf(site)

\* the number of containers open when function F is entered: the root
\* object, and the arrays and objects its callers have opened around it
EntryDepth(F) ==
    CASE F = "main" -> 0
      [] F = "main_end" -> 1
      [] F \in {"dump_profiles", "dump_image_formats", "dump_subpicture_formats"} -> 2
      [] F = "dump_entrypoints" -> 4
      [] F = "dump_filters" -> 5
      [] F \in {"dump_config_attributes", "dump_surface_attributes"} -> 6
      [] F \in {"dump_filter_caps", "dump_filter_pipelines"} -> 7
      [] OTHER -> 0

(* C26: indent_depth is never negative, is the number of containers open   *)
(* in the output, and is 0 once the root object is closed; at every call   *)
(* site of a function it has the value it had when the function was        *)
(* entered, so a return taken there leaves no container of the function    *)
(* open.                                                                   *)
C26_DepthBalancedAtEveryReturn ==
    /\ indent_depth >= 0
    /\ indent_depth = Cardinality({k \in 1..Len(out) : Opens(out[k])})
                      - Cardinality({k \in 1..Len(out) : Closes(out[k])})
    /\ indent_depth = EntryDepth(FunctionAt(pc))
    /\ pc = "done" => indent_depth = 0

\* a finished run in which the second query of dump_surface_attributes
\* failed in the pass for a later bit of the mask
C26_Witness ==
    /\ pc = "done" /\ indent_depth = 0
    /\ \E n \in Failed :
           /\ queries[n].site = "dump_surface_attributes_count"
           /\ \E m \in 1..(n - 1) : queries[m].site = "dump_surface_attributes_list"

-----------------------------------------------------------------------------
(* The colour balance and total colour correction cases of                 *)
(* dump_filter_pipelines on their own: the driver has reported             *)
(* colour_count entries, the case fills as many elements of its local      *)
(* array param and passes a byte size to vaCreateBuffer.  Sizes are in     *)
(* bytes; the size of one element depends on the library's structure       *)
(* layout and is drawn from ElemSizes.                                     *)

VAProcColorBalanceCount == 8
VAProcTotalColorCorrectionCount == 7

ElemSizes == {12, 16, 20, 24, 28, 32}

\* ARRAY_LENGTH(colour), which is also the length of param
ParamCapacity(f) ==
    IF f = VAProcFilterColorBalance THEN VAProcColorBalanceCount
    ELSE VAProcTotalColorCorrectionCount

\* colour_count * sizeof(param), param being the whole array
ParamBufferSize(colour_count, capacity, elem) == colour_count * (capacity * elem)

InitParam ==
    /\ \E f \in {VAProcFilterColorBalance, VAProcFilterTotalColorCorrection} : \E c \in 1..ParamCapacity(f) :
       \E e \in ElemSizes :
           loc = [filter |-> f, colour_count |-> c, elem |-> e, size |-> 0]
    /\ pretty_print = TRUE
    /\ indent_size = 4
    /\ indent_depth = 0
    /\ out = <<>>
    /\ calls = <<>>
    /\ pc = "param"
    /\ NoDevice

\* from the successful capability query to the call of vaCreateBuffer
CreateParamBuffer ==
    /\ pc = "param"
    /\ loc.colour_count > 0
    /\ loc' = [loc EXCEPT !.size = ParamBufferSize(loc.colour_count,
                                                   ParamCapacity(loc.filter), loc.elem)]
    /\ pc' = "param_done"
    /\ UNCHANGED <<dump_mask, indent_depth, indent_size, pretty_print, out, calls, dev,
                   failures, queries, errs, live, heap, argv>>

SpecParam == InitParam /\ [][CreateParamBuffer]_vars

(* C27: the byte size passed to vaCreateBuffer is colour_count times the   *)
(* size of one parameter element and is not larger than the array param.   *)
C27_ParamBufferSizeWithinArray ==
    pc = "param_done" =>
        /\ loc.size = loc.colour_count * loc.elem
        /\ loc.size <= ParamCapacity(loc.filter) * loc.elem

-----------------------------------------------------------------------------
\* chunks j < k are entries of one container: they lie at the same level and
\* no chunk between them lies above it
Siblings(lv, j, k) ==
    /\ j < k /\ lv[j] = lv[k]
    /\ \A i \in (j + 1)..(k - 1) : lv[i] >= lv[j]

(* C28: no two entries written directly inside the same object carry the   *)
(* same tag, whatever the driver reports, in particular when it reports    *)
(* several surface attribute types the switch has no case for.             *)
C28_TagsUniqueInObject ==
    LET lv == [k \in 1..Len(out) |-> Level(out, k)]
    IN  \A j \in 1..Len(out) : \A k \in (j + 1)..Len(out) :
            (/\ out[j].tag # "" /\ out[j].tag = out[k].tag
             /\ Siblings(lv, j, k)
             /\ lv[j] > 0) => out[Parent(out, j)].txt # "{"

-----------------------------------------------------------------------------
(* The 3D LUT case of dump_filter_caps after a successful capability       *)
(* query: any list of at most MaxLuts entries, each with any combination   *)
(* of the channel mappings of the table.                                   *)

InitLut ==
    /\ \E n \in 0..MaxLuts :
           \E sizes \in [1..n -> {17, 33}] : \E maps \in [1..n -> 0..7] :
               loc = [filter |-> VAProcFilter3DLUT,
                      caps |-> [j \in 1..n |->
                                   [lut_size |-> sizes[j],
                                    lut_stride |-> <<sizes[j], sizes[j], sizes[j]>>,
                                    bit_depth |-> 16, num_channel |-> 4,
                                    channel_mapping |-> maps[j]]]]
    /\ pretty_print \in BOOLEAN
    /\ indent_size = 4
    /\ indent_depth = 0
    /\ out = <<>>
    /\ calls = <<>>
    /\ pc = "lut"
    /\ NoDevice

\* the writer calls of the case, inside the object dump_filters opens for
\* the filter
DumpLut ==
    /\ pc = "lut"
    /\ LET w == Run(Writer, StartObject(NULL) \o PrintInteger("filter", loc.filter)
                                \o dump_filter_caps_out(loc.filter, loc.caps)
                                \o EndObject)
       IN  indent_depth' = w.d /\ out' = w.o
    /\ pc' = "lut_done"
    /\ UNCHANGED <<dump_mask, indent_size, pretty_print, calls, dev, failures, queries,
                   errs, live, heap, argv, loc>>

SpecLut == InitLut /\ [][DumpLut]_vars

(* C29: every entry written directly inside an array is anonymous and      *)
(* every entry written directly inside an object carries a tag, in every   *)
(* decoder, the 3D LUT capability list included.                           *)
C29_ArrayEntriesAnonymous ==
    \A j \in 1..Len(out) :
        (~Closes(out[j]) /\ Level(out, j) > 0) =>
            /\ out[Parent(out, j)].txt = "[" => out[j].tag = ""
            /\ out[Parent(out, j)].txt = "{" => out[j].tag # ""

-----------------------------------------------------------------------------
(* C30: every list a traversal function allocates is freed before the      *)
(* function returns, on the success path and on the early return after a   *)
(* failed fetch: once the run has finished no list is left allocated.      *)
C30_ListsFreedAtReturn == pc = "done" => heap = {}

====
